---------------------------- MODULE Spec2Model ----------------------------
(***************************************************************************)
(* Turn-capture pipeline of Anchor (voice): the on-device recognition      *)
(* bridge (createOnDeviceRecognizer, in its two versions) and the Home     *)
(* component's startRecording / stopRecording coordinator.                 *)
(*                                                                         *)
(* Strings are sequences of one-character strings.  Every startRecording   *)
(* invocation gets an id k; the stream, audio context, sampling loop,      *)
(* recognizer and recorder it creates, and the mr.onstop handler of that   *)
(* recorder, carry the same id.                                            *)
(***************************************************************************)
EXTENDS Naturals, Sequences, FiniteSets

\* ------------------------------------------------------------------ bounds
MaxStarts == 1
MaxRaceStarts == 2
MaxEvents == 2
MaxResults == 1
MaxTurnEvents == 1
MaxTicks == 1
MaxSamples == 7

\* --------------------------------------------------------- program constants
TickMs == 16
MinBlobBytes == 4000

\* ids of startRecording invocations: Spec runs MaxStarts of them, one after the
\* other; SpecRace runs MaxRaceStarts, also overlapping
MaxIds == IF MaxStarts > MaxRaceStarts THEN MaxStarts ELSE MaxRaceStarts
Ids == 1..MaxIds

VARIABLES
  variant, SR, AudioCtx, stored, prefPc,
  recState, finalText, interimText, onend, evFired, startFault, nEvents,
  stopCalled, stopOn, settled, timeout, outcome, finishRuns, signals, settledBy, stopThrew,
  status, sessionId, sessionReq, onDeviceOnly, messages, liveTranscript,
  mediaRecorderRef, mediaStreamRef, recognizerRef, audioCtxRef, audioChunksRef,
  pauseStatsRef, nTicks, nSilent,
  startPc, startPolicy, stream, trackStops, recorder, ctx, closeCalls, loop,
  stopPc, stopPolicy, pauseStats, ingestCalls,
  isListening, isReflecting, onstopPc, remoteCalls

bridgeVars == <<recState, finalText, interimText, onend, evFired, startFault, nEvents>>
stopVars == <<stopCalled, stopOn, settled, timeout, outcome, finishRuns, signals, settledBy,
              stopThrew>>
platformVars == <<variant, SR, AudioCtx>>
prefVars == <<stored, prefPc>>
\* the chunked voice flow of the earlier Home page (app/page.tsx): its two
\* processing flags, the position of the mr.onstop handler of each turn, and the
\* remote calls made, each with the way it settled
legacyVars == <<isListening, isReflecting, onstopPc, remoteCalls>>

uiVars == <<status, sessionId, sessionReq, onDeviceOnly, messages, liveTranscript>>
refVars == <<mediaRecorderRef, mediaStreamRef, recognizerRef, audioCtxRef, audioChunksRef,
             pauseStatsRef, nTicks, nSilent>>
turnVars == <<startPc, startPolicy, stream, trackStops, recorder, ctx, closeCalls, loop>>
handlerVars == <<stopPc, stopPolicy, pauseStats, ingestCalls>>
coordVars == <<uiVars, refVars, turnVars, handlerVars>>

vars == <<platformVars, prefVars, legacyVars, bridgeVars, stopVars, coordVars>>

\* ------------------------------------------------------------------ strings
WS == {" ", "\t"}

\* the recursions run over values: each is a function applied to its argument
trimStart(s) ==
  LET f[t \in Seq(STRING)] ==
        IF t = <<>> THEN <<>>
        ELSE IF Head(t) \in WS THEN f[Tail(t)] ELSE t
  IN f[s]

trimEnd(s) ==
  LET f[t \in Seq(STRING)] ==
        IF t = <<>> THEN <<>>
        ELSE IF t[Len(t)] \in WS THEN f[SubSeq(t, 1, Len(t) - 1)] ELSE t
  IN f[s]

\* String.prototype.trim
trim(s) == trimEnd(trimStart(s))

\* s.replace(/\s+/g, " "): every maximal run of whitespace becomes one space
collapseWs(s) ==
  LET f[t \in Seq(STRING)] ==
        IF t = <<>> THEN <<>>
        ELSE IF Head(t) \in WS THEN <<" ">> \o f[trimStart(t)]
        ELSE <<Head(t)>> \o f[Tail(t)]
  IN f[s]

normalizeSpaces(s) == trim(collapseWs(s))

\* transcript.split(/\s+/).filter(Boolean).length
wordCount(s) ==
  LET skipWord[u \in Seq(STRING)] ==
        IF u = <<>> \/ Head(u) \in WS THEN u ELSE skipWord[Tail(u)]
      f[t \in Seq(STRING)] ==
        IF trimStart(t) = <<>> THEN 0 ELSE 1 + f[skipWord[trimStart(t)]]
  IN f[s]

\* ------------------------------------------------------------------ outcomes
Pending == [state |-> "pending", ok |-> FALSE, text |-> <<>>, reason |-> ""]
Ok(text) == [state |-> "resolved", ok |-> TRUE, text |-> text, reason |-> ""]
Fail(reason) == [state |-> "resolved", ok |-> FALSE, text |-> <<>>, reason |-> reason]

\* --------------------------------------------------------- recognition events
Transcripts == { <<" ">>, <<"a">>, <<" ", "b", "\t", " ", "c">> }
Results == [transcript : Transcripts, isFinal : BOOLEAN]
\* event.results from event.resultIndex on
Events == UNION { [1..n -> Results] : n \in 0..MaxResults }

\* the result events a turn of the Home component is run against: a confirmed
\* word, and a provisional phrase with irregular spacing
TurnEvents ==
  { <<[transcript |-> <<"a">>, isFinal |-> TRUE]>>,
    <<[transcript |-> <<" ", "b", "\t", " ", "c">>, isFinal |-> FALSE]>> }

\* a loop body that replaces the confirmed text by the latest confirmed result
onresultStepOverwrites(acc, res) ==
  LET txt == normalizeSpaces(res.transcript) IN
  IF txt = <<>> THEN acc
  ELSE IF res.isFinal
       THEN [acc EXCEPT !.fin = txt]
       ELSE [acc EXCEPT !.int = normalizeSpaces(acc.int \o <<" ">> \o txt)]

\* rec.onresult loop body, inline recognizer of the Home component
onresultStepInline(acc, res) ==
  LET txt == normalizeSpaces(res.transcript) IN
  IF txt = <<>> THEN acc
  ELSE IF res.isFinal
       THEN [acc EXCEPT !.fin = normalizeSpaces(acc.fin \o <<" ">> \o txt)]
       ELSE [acc EXCEPT !.int = normalizeSpaces(acc.int \o <<" ">> \o txt)]

\* rec.onresult loop body, lib/stt recognizer
onresultStepLib(acc, res) ==
  LET txt == trim(res.transcript) IN
  IF txt = <<>> THEN acc
  ELSE IF res.isFinal
       THEN [acc EXCEPT !.fin = acc.fin \o (IF acc.fin # <<>> THEN <<" ">> ELSE <<>>) \o txt]
       ELSE [acc EXCEPT !.int = acc.int \o (IF acc.int # <<>> THEN <<" ">> ELSE <<>>) \o txt]

onresultStep(acc, res) ==
  IF variant = "inline" THEN onresultStepInline(acc, res) ELSE onresultStepLib(acc, res)

RECURSIVE onresultLoop(_, _, _)
onresultLoop(acc, ev, i) ==
  IF i > Len(ev) THEN acc ELSE onresultLoop(onresultStep(acc, ev[i]), ev, i + 1)

\* rec.onresult: interimText is reset, then the batch is folded in
onresult(fin, ev) == onresultLoop([fin |-> fin, int |-> <<>>], ev, 1)

\* the text the inline recognizer hands to api.onInterim
interimNotice(acc) == normalizeSpaces(trim(acc.fin \o <<" ">> \o acc.int))

\* finish (inline) / done (lib): the outcome for the hypothesis as it stands
finishInline(fin, int) ==
  LET text == normalizeSpaces(trim(fin \o <<" ">> \o int)) IN
  IF text = <<>> THEN Fail("empty_transcript") ELSE Ok(text)

doneLib(fin, int) ==
  LET text == trim(IF fin # <<>> THEN fin ELSE int) IN
  IF text = <<>> THEN Fail("empty_transcript") ELSE Ok(text)

\* a settlement step that looks at the confirmed text only
finishFinalOnly(b) ==
  LET text == normalizeSpaces(trim(finalText[b])) IN
  IF text = <<>> THEN Fail("empty_transcript") ELSE Ok(text)

finish(b) ==
  IF variant = "inline" THEN finishInline(finalText[b], interimText[b])
  ELSE doneLib(finalText[b], interimText[b])

\* resolve(): a promise keeps the first value it is resolved with
resolve(cur, val) == IF cur.state = "pending" THEN val ELSE cur

\* ------------------------------------------------- RecognitionBridge operations
\* recState: "absent" (no recognizer object), "created" (constructed, start() not
\* yet called), "idle" (start() called, engine not listening), "running", "ended"
inChain(h, b) == \E i \in 1..Len(onend[b]) : onend[b][i] = h

\* api.start(): reset the hypothesis, then rec.start(), which may throw
start(b, throws) ==
  /\ finalText' = [finalText EXCEPT ![b] = <<>>]
  /\ interimText' = [interimText EXCEPT ![b] = <<>>]
  /\ recState' = [recState EXCEPT ![b] = IF throws THEN "idle" ELSE "running"]
  /\ startFault' = [startFault EXCEPT ![b] = throws /\ variant = "lib"]
  /\ UNCHANGED <<onend, evFired, nEvents>>

\* a handler that does not reset interimText before folding the batch in
onresultEventKeepsInterim(b, ev) ==
  LET acc == onresultLoop([fin |-> finalText[b], int |-> interimText[b]], ev, 1) IN
  /\ finalText' = [finalText EXCEPT ![b] = acc.fin]
  /\ interimText' = [interimText EXCEPT ![b] = acc.int]
  /\ evFired' = [evFired EXCEPT ![b] = TRUE]
  /\ nEvents' = nEvents + 1
  /\ UNCHANGED <<recState, onend, startFault>>

\* rec.onresult
onresultEvent(b, ev) ==
  LET acc == onresult(finalText[b], ev) IN
  /\ finalText' = [finalText EXCEPT ![b] = acc.fin]
  /\ interimText' = [interimText EXCEPT ![b] = acc.int]
  /\ evFired' = [evFired EXCEPT ![b] = TRUE]
  /\ nEvents' = nEvents + 1
  /\ UNCHANGED <<recState, onend, startFault>>

\* Of a stop() call h: signals[h] are the signals (timeout callback, onend
\* wrapper) that have run, settledBy[h] those that passed the settled guard,
\* finishRuns[h] the number of times finish ran.

\* a timeout callback that only marks the timer as fired
timeoutFiresIdle(h) ==
  /\ timeout' = [timeout EXCEPT ![h] = "fired"]
  /\ signals' = [signals EXCEPT ![h] = @ \cup {"timeout"}]
  /\ UNCHANGED <<settled, outcome, finishRuns, settledBy>>
  /\ UNCHANGED <<stopCalled, stopOn, stopThrew>>

\* the setTimeout callback of stop(): guarded by settled
timeoutFires(h) ==
  /\ timeout' = [timeout EXCEPT ![h] = "fired"]
  /\ signals' = [signals EXCEPT ![h] = @ \cup {"timeout"}]
  /\ IF settled[h]
     THEN UNCHANGED <<settled, outcome, finishRuns, settledBy>>
     ELSE /\ settled' = [settled EXCEPT ![h] = TRUE]
          /\ outcome' = [outcome EXCEPT ![h] = resolve(@, finish(stopOn[h]))]
          /\ finishRuns' = [finishRuns EXCEPT ![h] = @ + 1]
          /\ settledBy' = [settledBy EXCEPT ![h] = @ \cup {"timeout"}]
  /\ UNCHANGED <<stopCalled, stopOn, stopThrew>>

\* rec.onend wrappers without the settled guard
onendFiresUnguarded(b) ==
  /\ signals' = [h \in Ids |-> IF inChain(h, b) THEN signals[h] \cup {"onend"} ELSE signals[h]]
  /\ timeout' = [h \in Ids |->
        IF inChain(h, b) /\ timeout[h] = "armed" THEN "cleared" ELSE timeout[h]]
  /\ settled' = [h \in Ids |-> settled[h] \/ inChain(h, b)]
  /\ outcome' = [h \in Ids |->
        IF inChain(h, b) THEN resolve(outcome[h], finish(b)) ELSE outcome[h]]
  /\ finishRuns' = [h \in Ids |-> IF inChain(h, b) THEN finishRuns[h] + 1 ELSE finishRuns[h]]
  /\ settledBy' = [h \in Ids |->
        IF inChain(h, b) THEN settledBy[h] \cup {"onend"} ELSE settledBy[h]]
  /\ UNCHANGED <<stopCalled, stopOn, stopThrew>>

\* the rec.onend wrappers installed by the stop() calls on recognizer b, run
\* innermost (prevEnd) first: clearTimeout, then the settled guard, then finish
onendFires(b) ==
  /\ signals' = [h \in Ids |-> IF inChain(h, b) THEN signals[h] \cup {"onend"} ELSE signals[h]]
  /\ timeout' = [h \in Ids |->
        IF inChain(h, b) /\ timeout[h] = "armed" THEN "cleared" ELSE timeout[h]]
  /\ settled' = [h \in Ids |-> settled[h] \/ inChain(h, b)]
  /\ outcome' = [h \in Ids |->
        IF inChain(h, b) /\ ~settled[h] THEN resolve(outcome[h], finish(b)) ELSE outcome[h]]
  /\ finishRuns' = [h \in Ids |->
        IF inChain(h, b) /\ ~settled[h] THEN finishRuns[h] + 1 ELSE finishRuns[h]]
  /\ settledBy' = [h \in Ids |->
        IF inChain(h, b) /\ ~settled[h] THEN settledBy[h] \cup {"onend"} ELSE settledBy[h]]
  /\ UNCHANGED <<stopCalled, stopOn, stopThrew>>

\* the catch around rec.stop(): the inline recognizer resolves without setting
\* settled, the lib recognizer sets it
stopCatchSettles == variant = "lib"

\* api.stop() called by handler h on recognizer b: arm the timeout, wrap
\* rec.onend, call rec.stop(), which may throw
stop(h, b, throws) ==
  /\ stopCalled' = [stopCalled EXCEPT ![h] = TRUE]
  /\ stopOn' = [stopOn EXCEPT ![h] = b]
  /\ onend' = [onend EXCEPT ![b] = Append(@, h)]
  /\ stopThrew' = [stopThrew EXCEPT ![h] = throws]
  /\ timeout' = [timeout EXCEPT ![h] = IF throws THEN "cleared" ELSE "armed"]
  /\ outcome' = [outcome EXCEPT ![h] = IF throws THEN resolve(@, Fail("stop_failed")) ELSE @]
  /\ settled' = [settled EXCEPT ![h] = throws /\ stopCatchSettles]
  /\ UNCHANGED <<finishRuns, signals, settledBy>>

\* ------------------------------------------------------------ Home component
\* 0 stands for a null ref

\* a Start button that does not wait for the session
canStartNoSession == status = "idle"

\* a Start button enabled in every status
canStartAnyStatus == sessionId # ""

canStart == status = "idle" /\ sessionId # ""
canStop == status = "recording"

Msg(role, kind, turn) == [role |-> role, kind |-> kind, turn |-> turn]

\* mr.start() is called without a timeslice: the recorder delivers its data in
\* one dataavailable event, fired with the stop event. Sizes of that blob
ChunkSizes == {2000, 4000}

blobSize(chunks) ==
  LET f[c \in Seq(Nat)] == IF c = <<>> THEN 0 ELSE Head(c) + f[Tail(c)]
  IN f[chunks]

\* a size guard that also turns away a blob of exactly the minimum
tooSmallStrict(chunks) == blobSize(chunks) <= MinBlobBytes

\* Path B: "!blob || blob.size < 4000"
tooSmall(chunks) == blobSize(chunks) < MinBlobBytes

\* a rational num/den; pause_ratio and speech_rate are kept exact
Ratio(n, d) == [num |-> n, den |-> d]
clamp01(r) == IF r.num > r.den THEN Ratio(1, 1) ELSE r

\* the first startRecording invocation id not yet used
freeId(k) == startPc[k] = "none" /\ \A j \in Ids : j < k => startPc[j] # "none"

\* createSession effect of Home
CreateSessionOk ==
  /\ sessionReq = "pending"
  /\ sessionReq' = "ok"
  /\ sessionId' = "s1"
  /\ UNCHANGED <<status, onDeviceOnly, messages, liveTranscript>>
  /\ UNCHANGED <<platformVars, legacyVars, prefVars, bridgeVars, stopVars, refVars, turnVars, handlerVars>>

CreateSessionFail ==
  /\ sessionReq = "pending"
  /\ sessionReq' = "failed"
  /\ UNCHANGED <<status, sessionId, onDeviceOnly, messages, liveTranscript>>
  /\ UNCHANGED <<platformVars, legacyVars, prefVars, bridgeVars, stopVars, refVars, turnVars, handlerVars>>

\* what localStorage holds under the preference key: nothing, or a string
StoredValues == {"absent", "0", "1"}

\* the save effect: localStorage.setItem(key, onDeviceOnly ? "1" : "0")
encodePref(v) == IF v THEN "1" ELSE "0"

\* prefPc: "mounted" (first render committed with onDeviceOnly = false, effects
\* not yet run), "loaded" (setOnDeviceOnly(true) queued by the load effect),
\* "settled". The effects of the first commit: the load effect reads the key,
\* then the save effect runs with the value of the first render
MountEffects ==
  /\ prefPc = "mounted"
  /\ prefPc' = IF stored = "1" THEN "loaded" ELSE "settled"
  /\ stored' = encodePref(onDeviceOnly)
  /\ UNCHANGED <<platformVars, legacyVars, bridgeVars, stopVars, coordVars>>

\* the render that follows setOnDeviceOnly(true), and its save effect
LoadApplied ==
  /\ prefPc = "loaded"
  /\ prefPc' = "settled"
  /\ onDeviceOnly' = TRUE
  /\ stored' = encodePref(TRUE)
  /\ UNCHANGED <<status, sessionId, sessionReq, messages, liveTranscript>>
  /\ UNCHANGED <<platformVars, legacyVars, bridgeVars, stopVars, refVars, turnVars, handlerVars>>

\* the "On-device only" toggle button, and the save effect of the render it causes
Toggle ==
  /\ onDeviceOnly' = ~onDeviceOnly
  /\ stored' = encodePref(~onDeviceOnly)
  /\ UNCHANGED <<status, sessionId, sessionReq, messages, liveTranscript, prefPc>>
  /\ UNCHANGED <<platformVars, legacyVars, bridgeVars, stopVars, refVars, turnVars, handlerVars>>

\* startRecording up to "await getUserMedia": invocation k
startRecordingBegin(k) ==
  /\ liveTranscript' = <<>>
  /\ recognizerRef' = 0
  /\ startPc' = [startPc EXCEPT ![k] = "acquiring"]
  /\ startPolicy' = [startPolicy EXCEPT ![k] = onDeviceOnly]
  /\ UNCHANGED <<status, sessionId, sessionReq, onDeviceOnly, messages>>
  /\ UNCHANGED <<mediaRecorderRef, mediaStreamRef, audioCtxRef, audioChunksRef, pauseStatsRef, nTicks, nSilent>>
  /\ UNCHANGED <<stream, trackStops, recorder, ctx, closeCalls, loop>>
  /\ UNCHANGED <<platformVars, legacyVars, prefVars, bridgeVars, stopVars, handlerVars>>

\* a press of the Start button, which is disabled (runs nothing) unless canStart;
\* at most n invocations in the run
StartPress(n) ==
  /\ canStart
  /\ \E k \in 1..n : freeId(k) /\ startRecordingBegin(k)

\* onDeviceOnly is read by startRecording and stopRecording alone, which run
\* from Idle and from Recording: a toggle in another status is the same as one
\* on the return to Idle
ToggleMatters == status \in {"idle", "recording"}

\* no startRecording invocation is waiting for the device
NoneAcquiring == \A j \in Ids : startPc[j] # "acquiring"

\* a refusal of the device that is swallowed without a message
AcquireFailSilent(k) ==
  /\ startPc[k] = "acquiring"
  /\ startPc' = [startPc EXCEPT ![k] = "failed"]
  /\ status' = "idle"
  /\ UNCHANGED <<sessionId, sessionReq, onDeviceOnly, liveTranscript, messages>>
  /\ UNCHANGED <<startPolicy, stream, trackStops, recorder, ctx, closeCalls, loop>>
  /\ UNCHANGED <<platformVars, legacyVars, prefVars, bridgeVars, stopVars, refVars, handlerVars>>

\* getUserMedia rejects: the catch of startRecording
AcquireFail(k) ==
  /\ startPc[k] = "acquiring"
  /\ startPc' = [startPc EXCEPT ![k] = "failed"]
  /\ messages' = Append(messages, Msg("assistant", "mic_denied", k))
  /\ status' = "idle"
  /\ UNCHANGED <<sessionId, sessionReq, onDeviceOnly, liveTranscript>>
  /\ UNCHANGED <<startPolicy, stream, trackStops, recorder, ctx, closeCalls, loop>>
  /\ UNCHANGED <<platformVars, legacyVars, prefVars, bridgeVars, stopVars, refVars, handlerVars>>

\* startPauseTracking(stream) of invocation k
startPauseTracking(k) ==
  IF AudioCtx
  THEN /\ ctx' = [ctx EXCEPT ![k] = "running"]
       /\ audioCtxRef' = k
       /\ pauseStatsRef' = [totalMs |-> 0, silentMs |-> 0, rafId |-> k]
       /\ loop' = [loop EXCEPT ![k] = TRUE]
  ELSE UNCHANGED <<ctx, audioCtxRef, pauseStatsRef, loop>>

\* a startRecording that constructs the recognizer without looking for the engine
startRecognizerUnchecked(k, recThrows) ==
  IF startPolicy[k]
  THEN /\ recognizerRef' = k
       /\ start(k, recThrows)
  ELSE UNCHANGED <<recognizerRef, bridgeVars>>

\* a startRecording that starts a recognizer under either policy
startRecognizerAlways(k, recThrows) ==
  IF SR
  THEN /\ recognizerRef' = k
       /\ start(k, recThrows)
  ELSE /\ recognizerRef' = 0
       /\ UNCHANGED bridgeVars

\* startRecording: "if (onDeviceOnly) { recognizerRef.current = createOnDeviceRecognizer(); ... start() }"
startRecognizer(k, recThrows) ==
  IF startPolicy[k]
  THEN IF SR
       THEN /\ recognizerRef' = k
            /\ start(k, recThrows)
       ELSE /\ recognizerRef' = 0
            /\ UNCHANGED bridgeVars
  ELSE UNCHANGED <<recognizerRef, bridgeVars>>

\* startRecording after getUserMedia resolved. fault: "none", or mr.start()
\* throws ("start"), which the catch handles like a refused device
AcquireOk(k, fault, recThrows) ==
  /\ startPc[k] = "acquiring"
  /\ mediaStreamRef' = k
  /\ stream' = [stream EXCEPT ![k] = "live"]
  /\ startPauseTracking(k)
  /\ startRecognizer(k, recThrows)
  /\ audioChunksRef' = <<>>
  /\ IF fault = "none"
     THEN /\ recorder' = [recorder EXCEPT ![k] = "recording"]
          /\ mediaRecorderRef' = k
          /\ status' = "recording"
          /\ startPc' = [startPc EXCEPT ![k] = "done"]
          /\ UNCHANGED messages
     ELSE /\ recorder' = [recorder EXCEPT ![k] = "inactive"]
          /\ messages' = Append(messages, Msg("assistant", "mic_denied", k))
          /\ status' = "idle"
          /\ startPc' = [startPc EXCEPT ![k] = "failed"]
          /\ UNCHANGED mediaRecorderRef
  /\ UNCHANGED <<sessionId, sessionReq, onDeviceOnly, liveTranscript>>
  /\ UNCHANGED <<startPolicy, trackStops, closeCalls, nTicks, nSilent>>
  /\ UNCHANGED <<platformVars, legacyVars, prefVars, stopVars, handlerVars>>

\* a tick that books a silent frame twice
tickOvercounts(k, silent) ==
  /\ loop[k]
  /\ nTicks' = nTicks + 1
  /\ nSilent' = nSilent + (IF silent THEN 1 ELSE 0)
  /\ pauseStatsRef' = [totalMs |-> pauseStatsRef.totalMs + TickMs,
                       silentMs |-> pauseStatsRef.silentMs + (IF silent THEN 2 * TickMs ELSE 0),
                       rafId |-> k]
  /\ UNCHANGED <<mediaRecorderRef, mediaStreamRef, recognizerRef, audioCtxRef, audioChunksRef>>
  /\ UNCHANGED <<platformVars, legacyVars, prefVars, bridgeVars, stopVars, uiVars, turnVars, handlerVars>>

\* a tick that books two frame intervals per frame
tickCoarse(k, silent) ==
  /\ loop[k]
  /\ nTicks' = nTicks + 1
  /\ nSilent' = nSilent + (IF silent THEN 1 ELSE 0)
  /\ pauseStatsRef' = [totalMs |-> pauseStatsRef.totalMs + 2 * TickMs,
                       silentMs |-> pauseStatsRef.silentMs + (IF silent THEN 2 * TickMs ELSE 0),
                       rafId |-> k]
  /\ UNCHANGED <<mediaRecorderRef, mediaStreamRef, recognizerRef, audioCtxRef, audioChunksRef>>
  /\ UNCHANGED <<platformVars, legacyVars, prefVars, bridgeVars, stopVars, uiVars, turnVars, handlerVars>>

\* tick of the sampling loop started by invocation k; silent: rms < threshold.
\* nTicks counts the ticks of the run, nSilent those that were silent
tick(k, silent) ==
  /\ loop[k]
  /\ nTicks' = nTicks + 1
  /\ nSilent' = nSilent + (IF silent THEN 1 ELSE 0)
  /\ pauseStatsRef' = [totalMs |-> pauseStatsRef.totalMs + TickMs,
                       silentMs |-> pauseStatsRef.silentMs + (IF silent THEN TickMs ELSE 0),
                       rafId |-> k]
  /\ UNCHANGED <<mediaRecorderRef, mediaStreamRef, recognizerRef, audioCtxRef, audioChunksRef>>
  /\ UNCHANGED <<platformVars, legacyVars, prefVars, bridgeVars, stopVars, uiVars, turnVars, handlerVars>>

\* mr.ondataavailable
ondataavailable(chunks, size) == IF size > 0 THEN Append(chunks, size) ELSE chunks

\* stopRecording, the synchronous part: a press of the Stop button (disabled
\* unless canStop). mr.stop() may throw; the recorder is then inactive and never
\* notifies onstop
stopRecording(throws) ==
  /\ canStop
  /\ LET mr == mediaRecorderRef IN
     IF mr = 0
     THEN UNCHANGED <<status, recorder, stopPc, stopPolicy>>
     ELSE /\ status' = IF throws THEN "idle" ELSE "transcribing"
          /\ recorder' = [recorder EXCEPT ![mr] = IF throws THEN "inactive" ELSE "stopping"]
          /\ stopPc' = [stopPc EXCEPT ![mr] = IF throws THEN "threw" ELSE "finalizing"]
          /\ stopPolicy' = [stopPolicy EXCEPT ![mr] = onDeviceOnly]
  /\ UNCHANGED <<sessionId, sessionReq, onDeviceOnly, messages, liveTranscript>>
  /\ UNCHANGED <<startPc, startPolicy, stream, trackStops, ctx, closeCalls, loop>>
  /\ UNCHANGED <<pauseStats, ingestCalls>>
  /\ UNCHANGED <<platformVars, legacyVars, prefVars, bridgeVars, stopVars, refVars>>

\* statistics that report the voiced share of the recording
pauseStatsVoiced ==
  LET totalMs == pauseStatsRef.totalMs
      silentMs == pauseStatsRef.silentMs
  IN [duration_ms |-> totalMs,
      pause_ratio |-> clamp01(IF totalMs > 0 THEN Ratio(totalMs - silentMs, totalMs) ELSE Ratio(0, 1))]

\* stopPauseTracking up to "await audioCtxRef.current?.close()": the value it
\* will return is fixed by the totals read here
pauseStatsNow ==
  LET totalMs == pauseStatsRef.totalMs
      silentMs == pauseStatsRef.silentMs
  IN [duration_ms |-> totalMs,
      pause_ratio |-> clamp01(IF totalMs > 0 THEN Ratio(silentMs, totalMs) ELSE Ratio(0, 1))]

\* the "didn't catch that" exit without the return to Idle
didntCatchStays(h) ==
  /\ messages' = Append(messages, Msg("assistant", "didnt_catch", h))
  /\ status' = status
  /\ stopPc' = [stopPc EXCEPT ![h] = "done"]

\* Path A with no transcript: "I didn't catch that", back to Idle
didntCatch(h) ==
  /\ messages' = Append(messages, Msg("assistant", "didnt_catch", h))
  /\ status' = "idle"
  /\ stopPc' = [stopPc EXCEPT ![h] = "done"]

\* mr.onstop after "await stopPauseTracking()": Path A up to the await of the
\* recognizer's stop(), or Path B up to the await of ingestTurnAudioFallback
onstopBody(h, chunks, recThrows) ==
  /\ audioCtxRef' = 0
  /\ IF stopPolicy[h]
     THEN IF recognizerRef # 0
          THEN /\ stop(h, recognizerRef, recThrows)
               /\ stopPc' = [stopPc EXCEPT ![h] = "await_bridge"]
               /\ UNCHANGED <<status, messages, ingestCalls>>
          ELSE /\ didntCatch(h)
               /\ UNCHANGED <<stopVars, onend, ingestCalls>>
     ELSE /\ UNCHANGED <<stopVars, onend>>
          /\ IF tooSmall(chunks)
             THEN /\ messages' = Append(messages, Msg("assistant", "no_audio", h))
                  /\ status' = "idle"
                  /\ stopPc' = [stopPc EXCEPT ![h] = "done"]
                  /\ UNCHANGED ingestCalls
             ELSE /\ ingestCalls' = Append(ingestCalls,
                        [op |-> "ingestTurnAudioFallback", turn |-> h,
                         blobBytes |-> blobSize(chunks)])
                  /\ status' = "reflecting"
                  /\ stopPc' = [stopPc EXCEPT ![h] = "await_ingest_audio"]
                  /\ UNCHANGED messages

\* recorder h finalizes: its data is delivered to mr.ondataavailable, then
\* mr.onstop runs: release the tracks of mediaStreamRef, clear the refs,
\* stopPauseTracking up to its await
onstop(h, size, recThrows) ==
  /\ stopPc[h] = "finalizing"
  /\ audioChunksRef' = ondataavailable(audioChunksRef, size)
  /\ recorder' = [recorder EXCEPT ![h] = "inactive"]
  /\ LET ms == mediaStreamRef IN
     /\ stream' = IF ms # 0 THEN [stream EXCEPT ![ms] = "stopped"] ELSE stream
     /\ trackStops' = IF ms # 0 THEN [trackStops EXCEPT ![ms] = @ + 1] ELSE trackStops
  /\ mediaStreamRef' = 0
  /\ mediaRecorderRef' = 0
  /\ LET r == pauseStatsRef.rafId IN
     loop' = IF r # 0 THEN [loop EXCEPT ![r] = FALSE] ELSE loop
  /\ pauseStats' = [pauseStats EXCEPT ![h] = pauseStatsNow]
  /\ IF audioCtxRef # 0
     THEN /\ ctx' = [ctx EXCEPT ![audioCtxRef] = "closed"]
          /\ closeCalls' = [closeCalls EXCEPT ![audioCtxRef] = @ + 1]
          /\ stopPc' = [stopPc EXCEPT ![h] = "closing"]
          /\ UNCHANGED <<audioCtxRef, status, messages, ingestCalls, stopVars, onend>>
     ELSE /\ onstopBody(h, ondataavailable(audioChunksRef, size), recThrows)
          /\ UNCHANGED <<ctx, closeCalls>>
  /\ UNCHANGED <<recState, finalText, interimText, evFired, startFault, nEvents>>
  /\ UNCHANGED <<sessionId, sessionReq, onDeviceOnly, liveTranscript>>
  /\ UNCHANGED <<recognizerRef, pauseStatsRef, nTicks, nSilent>>
  /\ UNCHANGED <<startPc, startPolicy, stopPolicy, platformVars, legacyVars, prefVars>>

\* audioCtx.close() settled: the rest of stopPauseTracking and of mr.onstop
ctxClosed(h, recThrows) ==
  /\ stopPc[h] = "closing"
  /\ onstopBody(h, audioChunksRef, recThrows)
  /\ UNCHANGED <<recState, finalText, interimText, evFired, startFault, nEvents>>
  /\ UNCHANGED <<sessionId, sessionReq, onDeviceOnly, liveTranscript>>
  /\ UNCHANGED <<mediaRecorderRef, mediaStreamRef, recognizerRef, audioChunksRef, pauseStatsRef, nTicks, nSilent>>
  /\ UNCHANGED <<turnVars, stopPolicy, pauseStats, platformVars, legacyVars, prefVars>>

\* a payload tagged as a server-side fallback
payloadTaggedFallback(h, transcript) ==
  LET words == wordCount(transcript)
      duration_ms == pauseStats[h].duration_ms
  IN [op |-> "ingestTurn", turn |-> h,
      input_mode |-> "voice",
      transcript_text |-> transcript,
      duration_ms |-> duration_ms,
      speech_rate |-> IF duration_ms > 0
                      THEN [defined |-> TRUE, value |-> Ratio(words * 1000, duration_ms)]
                      ELSE [defined |-> FALSE, value |-> Ratio(0, 1)],
      pause_ratio |-> pauseStats[h].pause_ratio,
      stt_provider_used |-> "server",
      fallback_used |-> TRUE]

\* a payload whose speech rate is counted per minute
payloadPerMinute(h, transcript) ==
  LET words == wordCount(transcript)
      duration_ms == pauseStats[h].duration_ms
  IN [op |-> "ingestTurn", turn |-> h,
      input_mode |-> "voice",
      transcript_text |-> transcript,
      duration_ms |-> duration_ms,
      speech_rate |-> IF duration_ms > 0
                      THEN [defined |-> TRUE, value |-> Ratio(words * 60000, duration_ms)]
                      ELSE [defined |-> FALSE, value |-> Ratio(0, 1)],
      pause_ratio |-> pauseStats[h].pause_ratio,
      stt_provider_used |-> "on_device",
      fallback_used |-> FALSE]

\* the payload of ingestTurn
payload(h, transcript) ==
  LET words == wordCount(transcript)
      duration_ms == pauseStats[h].duration_ms
  IN [op |-> "ingestTurn", turn |-> h,
      input_mode |-> "voice",
      transcript_text |-> transcript,
      duration_ms |-> duration_ms,
      speech_rate |-> IF duration_ms > 0
                      THEN [defined |-> TRUE, value |-> Ratio(words * 1000, duration_ms)]
                      ELSE [defined |-> FALSE, value |-> Ratio(0, 1)],
      pause_ratio |-> pauseStats[h].pause_ratio,
      stt_provider_used |-> "on_device",
      fallback_used |-> FALSE]

\* a Path A that reports an engine fault with the generic error message
bridgeResolvedFaultMsg(h) ==
  /\ stopPc[h] = "await_bridge"
  /\ outcome[h].state = "resolved"
  /\ LET transcript == IF outcome[h].ok THEN normalizeSpaces(outcome[h].text) ELSE <<>> IN
     IF transcript = <<>>
     THEN /\ messages' = Append(messages,
                Msg("assistant",
                    IF outcome[h].reason = "stop_failed" THEN "generic_error" ELSE "didnt_catch",
                    h))
          /\ status' = "idle"
          /\ stopPc' = [stopPc EXCEPT ![h] = "done"]
          /\ UNCHANGED ingestCalls
     ELSE /\ status' = "reflecting"
          /\ messages' = Append(messages, Msg("user", "transcript", h))
          /\ ingestCalls' = Append(ingestCalls, payload(h, transcript))
          /\ stopPc' = [stopPc EXCEPT ![h] = "await_ingest_transcript"]
  /\ UNCHANGED <<sessionId, sessionReq, onDeviceOnly, liveTranscript>>
  /\ UNCHANGED <<stopPolicy, pauseStats>>
  /\ UNCHANGED <<platformVars, legacyVars, prefVars, bridgeVars, stopVars, refVars, turnVars>>

\* a Path A that uploads the recorded audio when the recognizer has no text
bridgeResolvedUploads(h) ==
  /\ stopPc[h] = "await_bridge"
  /\ outcome[h].state = "resolved"
  /\ LET transcript == IF outcome[h].ok THEN normalizeSpaces(outcome[h].text) ELSE <<>> IN
     IF transcript = <<>>
     THEN /\ status' = "reflecting"
          /\ ingestCalls' = Append(ingestCalls,
                [op |-> "ingestTurnAudioFallback", turn |-> h,
                 blobBytes |-> blobSize(audioChunksRef)])
          /\ stopPc' = [stopPc EXCEPT ![h] = "await_ingest_audio"]
          /\ UNCHANGED messages
     ELSE /\ status' = "reflecting"
          /\ messages' = Append(messages, Msg("user", "transcript", h))
          /\ ingestCalls' = Append(ingestCalls, payload(h, transcript))
          /\ stopPc' = [stopPc EXCEPT ![h] = "await_ingest_transcript"]
  /\ UNCHANGED <<sessionId, sessionReq, onDeviceOnly, liveTranscript>>
  /\ UNCHANGED <<stopPolicy, pauseStats>>
  /\ UNCHANGED <<platformVars, legacyVars, prefVars, bridgeVars, stopVars, refVars, turnVars>>

\* Path A after "await recognizerRef.current.stop()"
bridgeResolved(h) ==
  /\ stopPc[h] = "await_bridge"
  /\ outcome[h].state = "resolved"
  /\ LET transcript == IF outcome[h].ok THEN normalizeSpaces(outcome[h].text) ELSE <<>> IN
     IF transcript = <<>>
     THEN /\ didntCatch(h)
          /\ UNCHANGED ingestCalls
     ELSE /\ status' = "reflecting"
          /\ messages' = Append(messages, Msg("user", "transcript", h))
          /\ ingestCalls' = Append(ingestCalls, payload(h, transcript))
          /\ stopPc' = [stopPc EXCEPT ![h] = "await_ingest_transcript"]
  /\ UNCHANGED <<sessionId, sessionReq, onDeviceOnly, liveTranscript>>
  /\ UNCHANGED <<stopPolicy, pauseStats>>
  /\ UNCHANGED <<platformVars, legacyVars, prefVars, bridgeVars, stopVars, refVars, turnVars>>

\* an ingestion step that repeats a failed call once
ingestSettledRetries(h, ok, hasTranscript) ==
  /\ stopPc[h] \in {"await_ingest_transcript", "await_ingest_audio"}
  /\ IF ~ok /\ Len(SelectSeq(ingestCalls, LAMBDA c : c.turn = h)) = 1
     THEN /\ ingestCalls' = Append(ingestCalls,
                CHOOSE c \in {ingestCalls[i] : i \in 1..Len(ingestCalls)} : c.turn = h)
          /\ UNCHANGED <<messages, status, stopPc>>
     ELSE /\ messages' =
               IF ~ok THEN Append(messages, Msg("assistant", "generic_error", h))
               ELSE IF stopPc[h] = "await_ingest_audio" /\ hasTranscript
                    THEN messages \o <<Msg("user", "transcript", h), Msg("assistant", "reply", h)>>
                    ELSE Append(messages, Msg("assistant", "reply", h))
          /\ status' = "idle"
          /\ stopPc' = [stopPc EXCEPT ![h] = "done"]
          /\ UNCHANGED ingestCalls
  /\ UNCHANGED <<sessionId, sessionReq, onDeviceOnly, liveTranscript>>
  /\ UNCHANGED <<stopPolicy, pauseStats>>
  /\ UNCHANGED <<platformVars, legacyVars, prefVars, bridgeVars, stopVars, refVars, turnVars>>

\* ingestTurn / ingestTurnAudioFallback settles: the try, catch and finally
ingestSettled(h, ok, hasTranscript) ==
  /\ stopPc[h] \in {"await_ingest_transcript", "await_ingest_audio"}
  /\ messages' =
       IF ~ok THEN Append(messages, Msg("assistant", "generic_error", h))
       ELSE IF stopPc[h] = "await_ingest_audio" /\ hasTranscript
            THEN messages \o <<Msg("user", "transcript", h), Msg("assistant", "reply", h)>>
            ELSE Append(messages, Msg("assistant", "reply", h))
  /\ status' = "idle"
  /\ stopPc' = [stopPc EXCEPT ![h] = "done"]
  /\ UNCHANGED <<sessionId, sessionReq, onDeviceOnly, liveTranscript>>
  /\ UNCHANGED <<stopPolicy, pauseStats, ingestCalls>>
  /\ UNCHANGED <<platformVars, legacyVars, prefVars, bridgeVars, stopVars, refVars, turnVars>>

\* ------------------------------------------------------ engine and timer events
\* a result event of recognizer b; a recognizer made by startRecording reports
\* the hypothesis through onInterim
OnResult(b, ev) ==
  /\ recState[b] = "running"
  /\ onresultEvent(b, ev)
  /\ liveTranscript' = IF startPc[b] # "none"
                       THEN interimNotice(onresult(finalText[b], ev))
                       ELSE liveTranscript
  /\ UNCHANGED <<status, sessionId, sessionReq, onDeviceOnly, messages>>
  /\ UNCHANGED <<platformVars, legacyVars, prefVars, stopVars, refVars, turnVars, handlerVars>>

\* rec.onerror: the handler changes nothing
OnError(b) ==
  /\ recState[b] = "running"
  /\ evFired' = [evFired EXCEPT ![b] = TRUE]
  /\ UNCHANGED <<recState, finalText, interimText, onend, startFault, nEvents>>
  /\ UNCHANGED <<platformVars, legacyVars, prefVars, stopVars, coordVars>>

\* the engine's end-of-session notification of recognizer b
EngineEnd(b) ==
  /\ recState[b] = "running"
  /\ recState' = [recState EXCEPT ![b] = "ended"]
  /\ evFired' = [evFired EXCEPT ![b] = TRUE]
  /\ onendFires(b)
  /\ UNCHANGED <<finalText, interimText, onend, startFault, nEvents>>
  /\ UNCHANGED <<platformVars, legacyVars, prefVars, coordVars>>

\* the stop timeout of handler h elapses
Timeout(h) ==
  /\ timeout[h] = "armed"
  /\ timeoutFires(h)
  /\ UNCHANGED <<platformVars, legacyVars, prefVars, bridgeVars, coordVars>>

\* ------------------------------------------- the bridge on its own: one lifetime
BridgeStart(throws) ==
  /\ recState[1] = "created"
  /\ start(1, throws)
  /\ UNCHANGED <<platformVars, legacyVars, prefVars, stopVars, coordVars>>

BridgeStop(throws) ==
  /\ recState[1] \in {"idle", "running", "ended"}
  /\ ~stopCalled[1]
  /\ stop(1, 1, throws)
  /\ UNCHANGED <<recState, finalText, interimText, evFired, startFault, nEvents>>
  /\ UNCHANGED <<platformVars, legacyVars, prefVars, coordVars>>

\* --------------------------------------- the tracker on its own: one lifetime
\* startPauseTracking(stream)
TrackerStart ==
  /\ ctx[1] = "none"
  /\ stopPc[1] = "none"
  /\ startPauseTracking(1)
  /\ UNCHANGED <<mediaRecorderRef, mediaStreamRef, recognizerRef, audioChunksRef, nTicks, nSilent>>
  /\ UNCHANGED <<startPc, startPolicy, stream, trackStops, recorder, closeCalls>>
  /\ UNCHANGED <<platformVars, legacyVars, prefVars, bridgeVars, stopVars, uiVars, handlerVars>>

\* the c-th call of stopPauseTracking, up to "await audioCtxRef.current?.close()".
\* Calls are numbered in the order they are made; a call may be made while an
\* earlier one still awaits the close
TrackerDetach(c) ==
  /\ stopPc[c] = "none"
  /\ \A d \in Ids : d < c => stopPc[d] # "none"
  /\ LET r == pauseStatsRef.rafId IN
     loop' = IF r # 0 THEN [loop EXCEPT ![r] = FALSE] ELSE loop
  /\ pauseStats' = [pauseStats EXCEPT ![c] = pauseStatsNow]
  /\ IF audioCtxRef # 0
     THEN /\ ctx' = [ctx EXCEPT ![audioCtxRef] = "closed"]
          /\ closeCalls' = [closeCalls EXCEPT ![audioCtxRef] = @ + 1]
          /\ stopPc' = [stopPc EXCEPT ![c] = "closing"]
     ELSE /\ stopPc' = [stopPc EXCEPT ![c] = "done"]
          /\ UNCHANGED <<ctx, closeCalls>>
  /\ UNCHANGED <<startPc, startPolicy, stream, trackStops, recorder, stopPolicy, ingestCalls>>
  /\ UNCHANGED <<platformVars, legacyVars, prefVars, bridgeVars, stopVars, uiVars, refVars>>

\* a detach that keeps its reference to the closed context
TrackerClosedKeepsRef(c) ==
  /\ stopPc[c] = "closing"
  /\ stopPc' = [stopPc EXCEPT ![c] = "done"]
  /\ UNCHANGED <<mediaRecorderRef, mediaStreamRef, recognizerRef, audioChunksRef, pauseStatsRef,
                 nTicks, nSilent, audioCtxRef>>
  /\ UNCHANGED <<stopPolicy, pauseStats, ingestCalls>>
  /\ UNCHANGED <<platformVars, legacyVars, prefVars, bridgeVars, stopVars, uiVars, turnVars>>

\* stopPauseTracking after close() settled: the refs are cleared and the
\* statistics read before the await are returned
TrackerClosed(c) ==
  /\ stopPc[c] = "closing"
  /\ audioCtxRef' = 0
  /\ stopPc' = [stopPc EXCEPT ![c] = "done"]
  /\ UNCHANGED <<mediaRecorderRef, mediaStreamRef, recognizerRef, audioChunksRef, pauseStatsRef,
                 nTicks, nSilent>>
  /\ UNCHANGED <<stopPolicy, pauseStats, ingestCalls>>
  /\ UNCHANGED <<platformVars, legacyVars, prefVars, bridgeVars, stopVars, uiVars, turnVars>>

\* ------------------------------- the tracker over several turns, one at a time
\* startPauseTracking(stream) of turn k, called once the turn before has been
\* detached; the turn's detach is the k-th call of stopPauseTracking
TrackerAttach(k) ==
  /\ startPc[k] = "none"
  /\ \A j \in Ids : j < k => startPc[j] = "done" /\ stopPc[j] = "done"
  /\ startPc' = [startPc EXCEPT ![k] = "done"]
  /\ startPauseTracking(k)
  /\ UNCHANGED <<mediaRecorderRef, mediaStreamRef, recognizerRef, audioChunksRef, nTicks, nSilent>>
  /\ UNCHANGED <<startPolicy, stream, trackStops, recorder, closeCalls>>
  /\ UNCHANGED <<platformVars, legacyVars, prefVars, bridgeVars, stopVars, uiVars, handlerVars>>

\* window.AudioContext || window.webkitAudioContext is looked up by every call
\* of startPauseTracking: what the lookup finds may differ from call to call
CapabilityChanges ==
  /\ AudioCtx' = ~AudioCtx
  /\ UNCHANGED <<variant, SR, legacyVars, prefVars, bridgeVars, stopVars, coordVars>>

\* ------------------------------------------------------------ specifications
\* the page once its mount effects have run, "off" stored
PrefSettled == stored = "0" /\ prefPc = "settled"

InitStop ==
  /\ stopCalled = [h \in Ids |-> FALSE]
  /\ stopOn = [h \in Ids |-> 0]
  /\ settled = [h \in Ids |-> FALSE]
  /\ timeout = [h \in Ids |-> "unset"]
  /\ outcome = [h \in Ids |-> Pending]
  /\ finishRuns = [h \in Ids |-> 0]
  /\ signals = [h \in Ids |-> {}]
  /\ settledBy = [h \in Ids |-> {}]
  /\ stopThrew = [h \in Ids |-> FALSE]

\* the chunked voice flow at rest: no flag shown, no handler run, no call made
InitLegacy ==
  /\ isListening = FALSE
  /\ isReflecting = FALSE
  /\ onstopPc = [h \in Ids |-> "none"]
  /\ remoteCalls = <<>>

InitCoord ==
  /\ status = "idle"
  /\ sessionId = ""
  /\ sessionReq = "pending"
  /\ onDeviceOnly = FALSE
  /\ messages = <<>>
  /\ liveTranscript = <<>>
  /\ mediaRecorderRef = 0
  /\ mediaStreamRef = 0
  /\ recognizerRef = 0
  /\ audioCtxRef = 0
  /\ audioChunksRef = <<>>
  /\ pauseStatsRef = [totalMs |-> 0, silentMs |-> 0, rafId |-> 0]
  /\ nTicks = 0
  /\ nSilent = 0
  /\ startPc = [k \in Ids |-> "none"]
  /\ startPolicy = [k \in Ids |-> FALSE]
  /\ stream = [k \in Ids |-> "none"]
  /\ trackStops = [k \in Ids |-> 0]
  /\ recorder = [k \in Ids |-> "none"]
  /\ ctx = [k \in Ids |-> "none"]
  /\ closeCalls = [k \in Ids |-> 0]
  /\ loop = [k \in Ids |-> FALSE]
  /\ stopPc = [h \in Ids |-> "none"]
  /\ stopPolicy = [h \in Ids |-> FALSE]
  /\ pauseStats = [h \in Ids |-> [duration_ms |-> 0, pause_ratio |-> Ratio(0, 1)]]
  /\ ingestCalls = <<>>

InitBridgeVars(made) ==
  /\ recState = [b \in Ids |-> IF b \in made THEN "created" ELSE "absent"]
  /\ finalText = [b \in Ids |-> <<>>]
  /\ interimText = [b \in Ids |-> <<>>]
  /\ onend = [b \in Ids |-> <<>>]
  /\ evFired = [b \in Ids |-> FALSE]
  /\ startFault = [b \in Ids |-> FALSE]
  /\ nEvents = 0

\* Home as mounted: the page's own recognizer, on any platform. In Spec the user
\* presses Start again only once the device request of the previous press has
\* settled; SpecRace lifts that
Init ==
  /\ variant = "inline"
  /\ SR \in BOOLEAN
  /\ AudioCtx \in BOOLEAN
  /\ InitBridgeVars({})
  /\ InitStop
  /\ InitCoord
  /\ InitLegacy
  /\ PrefSettled

Next ==
  \/ CreateSessionOk
  \/ CreateSessionFail
  \/ (ToggleMatters /\ Toggle)
  \/ (NoneAcquiring /\ StartPress(MaxStarts))
  \/ \E k \in Ids : AcquireFail(k)
  \/ \E k \in Ids, fault \in {"none", "start"}, recThrows \in BOOLEAN :
       AcquireOk(k, fault, recThrows)
  \/ \E k \in Ids, silent \in BOOLEAN : nTicks < MaxTicks /\ tick(k, silent)
  \/ \E throws \in BOOLEAN : stopRecording(throws)
  \/ \E h \in Ids, size \in ChunkSizes, recThrows \in BOOLEAN : onstop(h, size, recThrows)
  \/ \E h \in Ids, recThrows \in BOOLEAN : ctxClosed(h, recThrows)
  \/ \E h \in Ids : bridgeResolved(h)
  \/ \E h \in Ids, ok \in BOOLEAN, hasTranscript \in BOOLEAN : ingestSettled(h, ok, hasTranscript)
  \/ \E b \in Ids, ev \in TurnEvents : nEvents < MaxTurnEvents /\ OnResult(b, ev)
  \/ \E b \in Ids : EngineEnd(b)
  \/ \E h \in Ids : Timeout(h)

Spec == Init /\ [][Next]_vars

\* the scheduling the runtime guarantees once stop is issued: the recorder
\* finalizes, close() settles, the stop timeout elapses, a resolved promise
\* resumes its awaiter, the ingestion call settles
Progress(h) ==
  \/ \E size \in ChunkSizes, recThrows \in BOOLEAN : onstop(h, size, recThrows)
  \/ \E recThrows \in BOOLEAN : ctxClosed(h, recThrows)
  \/ Timeout(h)
  \/ bridgeResolved(h)
  \/ \E ok \in BOOLEAN, hasTranscript \in BOOLEAN : ingestSettled(h, ok, hasTranscript)

FairSpec == Spec /\ \A h \in Ids : WF_vars(Progress(h))

\* Home from its first render, whatever the storage holds: the mount effects,
\* then the page as above
InitPref ==
  /\ variant = "inline"
  /\ SR \in BOOLEAN
  /\ AudioCtx \in BOOLEAN
  /\ stored \in StoredValues
  /\ prefPc = "mounted"
  /\ InitBridgeVars({})
  /\ InitStop
  /\ InitCoord
  /\ InitLegacy

NextPref ==
  \/ MountEffects
  \/ LoadApplied
  \/ (prefPc = "settled" /\ Next)

SpecPref == InitPref /\ [][NextPref]_vars

\* Home on a platform with both capabilities, the preference as loaded at mount,
\* a silent engine, a recorder that starts, and a user who may press Start while
\* the device request of an earlier press is pending
InitRace ==
  /\ variant = "inline"
  /\ SR = TRUE
  /\ AudioCtx = TRUE
  /\ InitBridgeVars({})
  /\ InitStop
  /\ InitCoord
  /\ InitLegacy
  /\ PrefSettled

NextRace ==
  \/ CreateSessionOk
  \/ (ToggleMatters /\ Toggle)
  \/ StartPress(MaxRaceStarts)
  \/ \E k \in Ids : AcquireFail(k)
  \/ \E k \in Ids : AcquireOk(k, "none", FALSE)
  \/ \E k \in Ids, silent \in BOOLEAN : nTicks < MaxTicks /\ tick(k, silent)
  \/ \E throws \in BOOLEAN : stopRecording(throws)
  \/ \E h \in Ids, size \in ChunkSizes : onstop(h, size, FALSE)
  \/ \E h \in Ids : ctxClosed(h, FALSE)
  \/ \E h \in Ids : bridgeResolved(h)
  \/ \E h \in Ids, ok \in BOOLEAN : ingestSettled(h, ok, TRUE)
  \/ \E b \in Ids : EngineEnd(b)
  \/ \E h \in Ids : Timeout(h)

SpecRace == InitRace /\ [][NextRace]_vars

\* the same page and environment with a user who presses Start only when no
\* device request is pending: MaxRaceStarts turns, one after the other
NextTurns ==
  \/ CreateSessionOk
  \/ (ToggleMatters /\ Toggle)
  \/ (NoneAcquiring /\ StartPress(MaxRaceStarts))
  \/ \E k \in Ids : AcquireFail(k)
  \/ \E k \in Ids : AcquireOk(k, "none", FALSE)
  \/ \E k \in Ids, silent \in BOOLEAN : nTicks < MaxTicks /\ tick(k, silent)
  \/ \E throws \in BOOLEAN : stopRecording(throws)
  \/ \E h \in Ids, size \in ChunkSizes : onstop(h, size, FALSE)
  \/ \E h \in Ids : ctxClosed(h, FALSE)
  \/ \E h \in Ids : bridgeResolved(h)
  \/ \E h \in Ids, ok \in BOOLEAN : ingestSettled(h, ok, TRUE)
  \/ \E b \in Ids : EngineEnd(b)
  \/ \E h \in Ids : Timeout(h)

SpecTurns == InitRace /\ [][NextTurns]_vars

\* ------------------------------------- the chunked voice flow (app/page.tsx)
\* what the speech-to-text service returns for an upload
ServerTranscripts == { <<>>, <<" ">>, <<"a">> }

RemoteCall(op, h) == [op |-> op, turn |-> h, state |-> "pending", transcript |-> <<>>]

\* the pending call of turn h settles
settleCall(h, state, transcript) ==
  [i \in 1..Len(remoteCalls) |->
     IF remoteCalls[i].turn = h /\ remoteCalls[i].state = "pending"
     THEN [remoteCalls[i] EXCEPT !.state = state, !.transcript = transcript]
     ELSE remoteCalls[i]]

\* what no step of the chunked flow touches
legacyFrame ==
  /\ UNCHANGED <<sessionId, sessionReq, onDeviceOnly, liveTranscript>>
  /\ UNCHANGED <<recognizerRef, audioCtxRef, pauseStatsRef, nTicks, nSilent>>
  /\ UNCHANGED <<startPolicy, ctx, closeCalls, loop>>
  /\ UNCHANGED <<platformVars, prefVars, bridgeVars, stopVars, handlerVars>>

\* startRecording up to "await getUserMedia": invocation k
legacyStartRecording(k) ==
  /\ startPc' = [startPc EXCEPT ![k] = "acquiring"]
  /\ UNCHANGED <<status, messages, mediaRecorderRef, mediaStreamRef, audioChunksRef>>
  /\ UNCHANGED <<stream, trackStops, recorder, legacyVars>>
  /\ legacyFrame

\* a press of the Start button, disabled unless canStart
legacyStartPress(n) ==
  /\ canStart
  /\ \E k \in 1..n : freeId(k) /\ legacyStartRecording(k)

\* getUserMedia rejects: the catch of startRecording
legacyAcquireFail(k) ==
  /\ startPc[k] = "acquiring"
  /\ startPc' = [startPc EXCEPT ![k] = "failed"]
  /\ messages' = Append(messages, Msg("assistant", "mic_denied", k))
  /\ status' = "idle"
  /\ UNCHANGED <<mediaRecorderRef, mediaStreamRef, audioChunksRef>>
  /\ UNCHANGED <<stream, trackStops, recorder, legacyVars>>
  /\ legacyFrame

\* getUserMedia resolves: the rest of startRecording; mr.start() may throw
legacyAcquireOk(k, throws) ==
  /\ startPc[k] = "acquiring"
  /\ mediaStreamRef' = k
  /\ stream' = [stream EXCEPT ![k] = "live"]
  /\ audioChunksRef' = <<>>
  /\ IF throws
     THEN /\ recorder' = [recorder EXCEPT ![k] = "inactive"]
          /\ messages' = Append(messages, Msg("assistant", "mic_denied", k))
          /\ status' = "idle"
          /\ startPc' = [startPc EXCEPT ![k] = "failed"]
          /\ UNCHANGED mediaRecorderRef
     ELSE /\ recorder' = [recorder EXCEPT ![k] = "recording"]
          /\ mediaRecorderRef' = k
          /\ status' = "recording"
          /\ startPc' = [startPc EXCEPT ![k] = "done"]
          /\ UNCHANGED messages
  /\ UNCHANGED <<trackStops, legacyVars>>
  /\ legacyFrame

\* resetIndicators, and the setStatus("idle") that follows it on every exit
legacyExit(h) ==
  /\ isListening' = FALSE
  /\ isReflecting' = FALSE
  /\ status' = "idle"
  /\ onstopPc' = [onstopPc EXCEPT ![h] = "done"]

\* the catch and the finally of mr.onstop
legacyCatch(h) ==
  /\ messages' = Append(messages, Msg("assistant", "generic_error", h))
  /\ remoteCalls' = settleCall(h, "failed", <<>>)
  /\ legacyExit(h)

\* stopRecording, the synchronous part: a press of the Stop button (disabled
\* unless canStop); mr.stop() may throw
legacyStopRecording(throws) ==
  /\ canStop
  /\ LET mr == mediaRecorderRef IN
     IF mr = 0
     THEN UNCHANGED <<status, recorder, isListening, isReflecting, onstopPc>>
     ELSE IF throws
          THEN /\ isListening' = FALSE
               /\ isReflecting' = FALSE
               /\ status' = "idle"
               /\ recorder' = [recorder EXCEPT ![mr] = "inactive"]
               /\ onstopPc' = [onstopPc EXCEPT ![mr] = "threw"]
          ELSE /\ status' = "sending"
               /\ recorder' = [recorder EXCEPT ![mr] = "stopping"]
               /\ onstopPc' = [onstopPc EXCEPT ![mr] = "finalizing"]
               /\ UNCHANGED <<isListening, isReflecting>>
  /\ UNCHANGED <<messages, mediaRecorderRef, mediaStreamRef, audioChunksRef>>
  /\ UNCHANGED <<startPc, stream, trackStops, remoteCalls>>
  /\ legacyFrame

\* recorder h finalizes: its data is delivered, then mr.onstop runs up to
\* "await startTurn(sessionId)", or to the end when the blob is too small
legacyOnstop(h, size) ==
  /\ onstopPc[h] = "finalizing"
  /\ audioChunksRef' = ondataavailable(audioChunksRef, size)
  /\ recorder' = [recorder EXCEPT ![h] = "inactive"]
  /\ LET ms == mediaStreamRef IN
     /\ stream' = IF ms # 0 THEN [stream EXCEPT ![ms] = "stopped"] ELSE stream
     /\ trackStops' = IF ms # 0 THEN [trackStops EXCEPT ![ms] = @ + 1] ELSE trackStops
  /\ mediaStreamRef' = 0
  /\ mediaRecorderRef' = 0
  /\ IF tooSmall(ondataavailable(audioChunksRef, size))
     THEN /\ messages' = Append(messages, Msg("assistant", "no_audio", h))
          /\ legacyExit(h)
          /\ UNCHANGED remoteCalls
     ELSE /\ remoteCalls' = Append(remoteCalls, RemoteCall("startTurn", h))
          /\ onstopPc' = [onstopPc EXCEPT ![h] = "await_startTurn"]
          /\ UNCHANGED <<status, messages, isListening, isReflecting>>
  /\ UNCHANGED startPc
  /\ legacyFrame

\* startTurn settles
startTurnSettled(h, ok) ==
  /\ onstopPc[h] = "await_startTurn"
  /\ IF ok
     THEN /\ isListening' = TRUE
          /\ isReflecting' = FALSE
          /\ remoteCalls' = Append(settleCall(h, "ok", <<>>), RemoteCall("uploadAudio", h))
          /\ onstopPc' = [onstopPc EXCEPT ![h] = "await_uploadAudio"]
          /\ UNCHANGED <<status, messages>>
     ELSE legacyCatch(h)
  /\ UNCHANGED <<mediaRecorderRef, mediaStreamRef, audioChunksRef>>
  /\ UNCHANGED <<startPc, stream, trackStops, recorder>>
  /\ legacyFrame

\* an upload step that goes on to appendChunk whatever came back
uploadAudioSettledGoesOn(h, ok, transcript) ==
  /\ onstopPc[h] = "await_uploadAudio"
  /\ messages' = Append(messages, Msg("user", "transcript", h))
  /\ remoteCalls' = Append(settleCall(h, IF ok THEN "ok" ELSE "failed", transcript),
                           RemoteCall("appendChunk", h))
  /\ onstopPc' = [onstopPc EXCEPT ![h] = "await_appendChunk"]
  /\ UNCHANGED <<status, isListening, isReflecting>>
  /\ UNCHANGED <<mediaRecorderRef, mediaStreamRef, audioChunksRef>>
  /\ UNCHANGED <<startPc, stream, trackStops, recorder>>
  /\ legacyFrame

\* uploadAudio settles: "const transcript = (audio.transcript || "").trim()"
uploadAudioSettled(h, ok, transcript) ==
  /\ onstopPc[h] = "await_uploadAudio"
  /\ IF ~ok
     THEN legacyCatch(h)
     ELSE IF trim(transcript) = <<>>
          THEN /\ messages' = Append(messages, Msg("assistant", "trouble_hearing", h))
               /\ remoteCalls' = settleCall(h, "ok", transcript)
               /\ legacyExit(h)
          ELSE /\ messages' = Append(messages, Msg("user", "transcript", h))
               /\ remoteCalls' = Append(settleCall(h, "ok", transcript),
                                        RemoteCall("appendChunk", h))
               /\ onstopPc' = [onstopPc EXCEPT ![h] = "await_appendChunk"]
               /\ UNCHANGED <<status, isListening, isReflecting>>
  /\ UNCHANGED <<mediaRecorderRef, mediaStreamRef, audioChunksRef>>
  /\ UNCHANGED <<startPc, stream, trackStops, recorder>>
  /\ legacyFrame

\* appendChunk settles
appendChunkSettled(h, ok) ==
  /\ onstopPc[h] = "await_appendChunk"
  /\ IF ok
     THEN /\ isListening' = FALSE
          /\ isReflecting' = TRUE
          /\ remoteCalls' = Append(settleCall(h, "ok", <<>>), RemoteCall("finalizeTurn", h))
          /\ onstopPc' = [onstopPc EXCEPT ![h] = "await_finalizeTurn"]
          /\ UNCHANGED <<status, messages>>
     ELSE legacyCatch(h)
  /\ UNCHANGED <<mediaRecorderRef, mediaStreamRef, audioChunksRef>>
  /\ UNCHANGED <<startPc, stream, trackStops, recorder>>
  /\ legacyFrame

\* finalizeTurn settles: the reply, or the catch; then the finally
finalizeTurnSettled(h, ok) ==
  /\ onstopPc[h] = "await_finalizeTurn"
  /\ IF ok
     THEN /\ messages' = Append(messages, Msg("assistant", "reply", h))
          /\ remoteCalls' = settleCall(h, "ok", <<>>)
          /\ legacyExit(h)
     ELSE legacyCatch(h)
  /\ UNCHANGED <<mediaRecorderRef, mediaStreamRef, audioChunksRef>>
  /\ UNCHANGED <<startPc, stream, trackStops, recorder>>
  /\ legacyFrame

\* the earlier Home page as mounted, and a user who presses Start only when no
\* device request is pending: MaxRaceStarts turns, one after the other
InitLegacyHome ==
  /\ variant = "inline"
  /\ SR = TRUE
  /\ AudioCtx = TRUE
  /\ InitBridgeVars({})
  /\ InitStop
  /\ InitCoord
  /\ InitLegacy
  /\ PrefSettled

NextLegacy ==
  \/ CreateSessionOk
  \/ (NoneAcquiring /\ legacyStartPress(MaxRaceStarts))
  \/ \E k \in Ids : legacyAcquireFail(k)
  \/ \E k \in Ids, throws \in BOOLEAN : legacyAcquireOk(k, throws)
  \/ \E throws \in BOOLEAN : legacyStopRecording(throws)
  \/ \E h \in Ids, size \in ChunkSizes : legacyOnstop(h, size)
  \/ \E h \in Ids, ok \in BOOLEAN : startTurnSettled(h, ok)
  \/ \E h \in Ids, ok \in BOOLEAN, transcript \in ServerTranscripts :
       uploadAudioSettled(h, ok, transcript)
  \/ \E h \in Ids, ok \in BOOLEAN : appendChunkSettled(h, ok)
  \/ \E h \in Ids, ok \in BOOLEAN : finalizeTurnSettled(h, ok)

SpecLegacy == InitLegacyHome /\ [][NextLegacy]_vars

\* a recognizer of either version, constructed on a platform that has an engine
InitBridge ==
  /\ variant \in {"inline", "lib"}
  /\ SR = TRUE
  /\ AudioCtx = TRUE
  /\ InitBridgeVars({1})
  /\ InitStop
  /\ InitCoord
  /\ InitLegacy
  /\ PrefSettled

NextBridge ==
  \/ \E throws \in BOOLEAN : BridgeStart(throws)
  \/ \E throws \in BOOLEAN : BridgeStop(throws)
  \/ \E ev \in Events : nEvents < MaxEvents /\ OnResult(1, ev)
  \/ OnError(1)
  \/ EngineEnd(1)
  \/ Timeout(1)

SpecBridge == InitBridge /\ [][NextBridge]_vars

\* an armed timer elapses
FairSpecBridge == SpecBridge /\ WF_vars(Timeout(1))

\* the amplitude tracker alone, over every sequence of up to MaxSamples samples
InitTracker ==
  /\ variant = "inline"
  /\ SR = TRUE
  /\ AudioCtx \in BOOLEAN
  /\ InitBridgeVars({})
  /\ InitStop
  /\ InitCoord
  /\ InitLegacy
  /\ PrefSettled

NextTracker ==
  \/ TrackerStart
  \/ \E silent \in BOOLEAN : nTicks < MaxSamples /\ tick(1, silent)
  \/ \E c \in Ids : TrackerDetach(c)
  \/ \E c \in Ids : TrackerClosed(c)

SpecTracker == InitTracker /\ [][NextTracker]_vars

\* the tracker over successive turns, on a page where the lookup of the audio
\* context constructor does not always give the same answer
NextTrackerTurns ==
  \/ \E k \in Ids : TrackerAttach(k)
  \/ \E k \in Ids, silent \in BOOLEAN : nTicks < MaxSamples /\ tick(k, silent)
  \/ \E c \in Ids : startPc[c] = "done" /\ TrackerDetach(c)
  \/ \E c \in Ids : TrackerClosed(c)
  \/ CapabilityChanges

SpecTrackerTurns == InitTracker /\ [][NextTrackerTurns]_vars

\* ================================================== RecognitionBridge: stop()
Resolved(h) == outcome[h].state = "resolved"

\* the hypothesis the settlement step looks at: confirmed and provisional text
Accumulated(b) == trim(finalText[b] \o <<" ">> \o interimText[b])

\* C1: after stop(), whichever way the engine's end notification and the stop
\* timeout interleave, at most one of them passes the settled guard and runs the
\* settlement step, the other is ignored; when the stop primitive did not throw
\* a resolved stop() was settled by exactly one of them; and an outcome, once
\* produced, is never replaced by another
C1_SettledOnce ==
  \A h \in Ids :
    /\ Cardinality(settledBy[h]) <= 1
    /\ settledBy[h] \subseteq signals[h]
    /\ finishRuns[h] = Cardinality(settledBy[h])
    /\ (Resolved(h) /\ ~stopThrew[h]) => Cardinality(settledBy[h]) = 1
    /\ (~Resolved(h)) => settledBy[h] = {}

C1_OutcomeKept == \A h \in Ids : Resolved(h) => outcome'[h] = outcome[h]

C1_ExactlyOneSettles == []C1_SettledOnce /\ [][C1_OutcomeKept]_vars

\* the timeout settled and the end notification that came after it was ignored
C1_Witness ==
  /\ signals[1] = {"timeout", "onend"}
  /\ settledBy[1] = {"timeout"}
  /\ Resolved(1)
  /\ ~stopThrew[1]

\* C2: when the stop primitive does not throw, the step that settles stop()
\* yields ok with the text iff the accumulated confirmed and provisional text is
\* non-empty after trimming, and otherwise fails with empty_transcript
C2_SettleStep ==
  \A h \in Ids :
    (~Resolved(h) /\ outcome'[h].state = "resolved" /\ ~stopThrew'[h]) =>
      LET acc == Accumulated(stopOn[h]) IN
      /\ outcome'[h].ok <=> acc # <<>>
      /\ outcome'[h].ok => trim(outcome'[h].text) = outcome'[h].text /\ outcome'[h].text # <<>>
      /\ ~outcome'[h].ok => outcome'[h].reason = "empty_transcript"

C2_OkIffText == [][C2_SettleStep]_vars

\* settled ok on provisional text alone
C2_Witness ==
  /\ Resolved(1)
  /\ ~stopThrew[1]
  /\ outcome[1].ok
  /\ finalText[1] = <<>>
  /\ interimText[1] # <<>>

\* C3: when the stop primitive throws, the timeout is cancelled, the outcome is
\* stop_failed, and the settlement step never runs for that stop()
C3_ThrowIsFinal ==
  \A h \in Ids :
    stopThrew[h] =>
      /\ timeout[h] = "cleared"
      /\ outcome[h] = Fail("stop_failed")
      /\ finishRuns[h] = 0

\* C4 as stated: whenever stop() was called and no recognition event has fired
\* since start(), a resolved stop() failed with empty_transcript and was settled
\* by the timeout
C4_AsStated ==
  \A h \in Ids :
    (stopCalled[h] /\ stopOn[h] # 0 /\ ~evFired[stopOn[h]] /\ Resolved(h)) =>
      /\ outcome[h] = Fail("empty_transcript")
      /\ settledBy[h] = {"timeout"}

\* C4, amended: with no recognition event since start(), a stop() whose stop
\* primitive did not throw is pending with its timer armed until the timeout
\* fires and then has failed with empty_transcript, settled by the timeout; one
\* whose stop primitive threw has failed with stop_failed; and every stop()
\* resolves
C4_SilentStop ==
  \A h \in Ids :
    (stopCalled[h] /\ stopOn[h] # 0 /\ ~evFired[stopOn[h]]) =>
      IF stopThrew[h]
      THEN outcome[h] = Fail("stop_failed")
      ELSE \/ ~Resolved(h) /\ timeout[h] = "armed" /\ signals[h] = {}
           \/ /\ outcome[h] = Fail("empty_transcript")
              /\ timeout[h] = "fired"
              /\ settledBy[h] = {"timeout"}

C4_SilentStopResolves == []C4_SilentStop /\ (stopCalled[1] ~> Resolved(1))

\* a silent engine, and the timeout produced empty_transcript
C4_Witness ==
  /\ stopCalled[1]
  /\ recState[1] = "running"
  /\ ~evFired[1]
  /\ outcome[1] = Fail("empty_transcript")
  /\ settledBy[1] = {"timeout"}

\* ============================================================ TurnCoordinator
Busy == status \in {"transcribing", "reflecting"}

\* stop was reached for the turn of recorder h, normally or by the throw
StopReached(h) ==
  stopPc[h] \in {"closing", "await_bridge", "await_ingest_transcript",
                 "await_ingest_audio", "done", "threw"}

\* the handler messages of turn h
MsgsOf(h) == SelectSeq(messages, LAMBDA m : m.turn = h /\ m.kind # "mic_denied")
IngestsOf(h) == SelectSeq(ingestCalls, LAMBDA c : c.turn = h)

\* C5: once stop is issued from Recording the status returns to Idle on every
\* branch: at once when the recorder's stop throws, and eventually after
\* Transcribing or Reflecting, given that the finalization notification, the
\* timers and the ingestion call eventually complete
C5_ThrowStep ==
  (canStop /\ mediaRecorderRef # 0 /\ stopPc'[mediaRecorderRef] = "threw") => status' = "idle"

C5_StopReachesIdle == (Busy ~> status = "idle") /\ [][C5_ThrowStep]_vars

\* an on-device turn went through ingestion and came back to Idle
C5_Witness ==
  /\ status = "idle"
  /\ stopPc[1] = "done"
  /\ stopPolicy[1]
  /\ Len(IngestsOf(1)) = 1

\* C6: however stop is reached, the tracks of the turn's stream have been
\* released exactly once
C6_TracksReleasedOnce ==
  \A h \in Ids : StopReached(h) => trackStops[h] = 1 /\ stream[h] = "stopped"

\* C7: in Idle, no stream, recorder, sampling loop or recognizer of a turn
\* that was started is still live
C7_IdleNothingLive ==
  status = "idle" =>
    \A k \in Ids :
      startPc[k] \in {"done", "failed"} =>
        /\ stream[k] # "live"
        /\ recorder[k] \notin {"recording", "stopping"}
        /\ ~loop[k]
        /\ recState[k] # "running"

\* C8: at most one capture session is recording and at most one input stream
\* is open
C8_OneSession ==
  /\ Cardinality({k \in Ids : recorder[k] = "recording"}) <= 1
  /\ Cardinality({k \in Ids : stream[k] = "live"}) <= 1

\* C9: a start request while the status is not Idle has no effect: no step taken
\* from such a state begins a startRecording invocation, and nothing (stream,
\* recorder, tracker, recognizer) exists for an invocation that never began
C9_NoStartStep ==
  status # "idle" => \A k \in Ids : startPc[k] = "none" => startPc'[k] = "none"

C9_NothingUnstarted ==
  \A k \in Ids :
    startPc[k] = "none" =>
      /\ stream[k] = "none"
      /\ recorder[k] = "none"
      /\ ctx[k] = "none"
      /\ ~loop[k]
      /\ recState[k] = "absent"
      /\ stopPc[k] = "none"

C9_StartRejected == []C9_NothingUnstarted /\ [][C9_NoStartStep]_vars

\* a turn is past Idle, the session exists and an invocation is still to be had
C9_Witness ==
  /\ status \in {"recording", "transcribing", "reflecting"}
  /\ sessionId # ""
  /\ \E k \in Ids : k <= MaxRaceStarts /\ startPc[k] = "none"

\* C10: on the on-device path, a recognizer outcome that is not ok ends the turn
\* with the "didn't catch that" message and the status Idle, and nothing of the
\* turn, transcript or audio, is ever handed to ingestion
OnDeviceFailed(h) ==
  /\ stopPc[h] # "none"
  /\ stopPolicy[h]
  /\ outcome[h].state = "resolved"
  /\ ~outcome[h].ok

C10_NoIngest ==
  \A h \in Ids :
    OnDeviceFailed(h) =>
      /\ stopPc[h] \in {"await_bridge", "done"}
      /\ IngestsOf(h) = <<>>
      /\ stopPc[h] = "done" => MsgsOf(h) = <<Msg("assistant", "didnt_catch", h)>>

C10_ExitStep ==
  \A h \in Ids :
    (OnDeviceFailed(h) /\ stopPc[h] = "await_bridge" /\ stopPc'[h] = "done") =>
      status' = "idle"

C12_GuardStep ==
  \A h \in Ids :
    (~stopPolicy[h] /\ stopPc[h] \in {"finalizing", "closing"}
                    /\ stopPc'[h] \notin {"finalizing", "closing"}) =>
      LET size == blobSize(audioChunksRef') IN
      IF size < MinBlobBytes
      THEN /\ ingestCalls' = ingestCalls
           /\ messages' = Append(messages, Msg("assistant", "no_audio", h))
           /\ status' = "idle"
           /\ stopPc'[h] = "done"
      ELSE /\ ingestCalls' = Append(ingestCalls,
                 [op |-> "ingestTurnAudioFallback", turn |-> h, blobBytes |-> size])
           /\ stopPc'[h] = "await_ingest_audio"

C12_Once ==
  \A h \in Ids :
    (stopPc[h] # "none" /\ ~stopPolicy[h]) =>
      /\ Len(IngestsOf(h)) <= 1
      /\ stopPc[h] = "await_ingest_audio" => Len(IngestsOf(h)) = 1
      /\ stopPc[h] = "done" =>
           (IngestsOf(h) = <<>> <=> MsgsOf(h) = <<Msg("assistant", "no_audio", h)>>)

C12_MinBlob == []C12_Once /\ [][C12_GuardStep]_vars

\* a server-path turn whose blob was below the minimum
C12_Witness ==
  /\ ~stopPolicy[1]
  /\ stopPc[1] = "done"
  /\ audioChunksRef # <<>>
  /\ blobSize(audioChunksRef) < MinBlobBytes
  /\ MsgsOf(1) = <<Msg("assistant", "no_audio", 1)>>
  /\ ingestCalls = <<>>
  /\ status = "idle"

\* C13: the handler's step on a recognizer outcome that is not ok is the same
\* for stop_failed as for empty_transcript: the "didn't catch that" message, no
\* ingestion call, the status Idle
C13_FailStep ==
  \A h \in Ids, reason \in {"stop_failed", "empty_transcript"} :
    (stopPolicy[h] /\ stopPc[h] = "await_bridge" /\ stopPc'[h] # "await_bridge"
                   /\ outcome[h] = Fail(reason)) =>
      /\ messages' = Append(messages, Msg("assistant", "didnt_catch", h))
      /\ ingestCalls' = ingestCalls
      /\ status' = "idle"
      /\ stopPc'[h] = "done"

C13_Reasons ==
  \A h \in Ids :
    (outcome[h].state = "resolved" /\ ~outcome[h].ok) =>
      outcome[h].reason \in {"stop_failed", "empty_transcript"}

C13_SameTreatment == []C13_Reasons /\ [][C13_FailStep]_vars

\* a turn whose recognizer failed to stop has ended like an empty one
C13_Witness ==
  /\ stopPolicy[1]
  /\ stopPc[1] = "done"
  /\ outcome[1] = Fail("stop_failed")
  /\ MsgsOf(1) = <<Msg("assistant", "didnt_catch", 1)>>
  /\ ingestCalls = <<>>
  /\ status = "idle"

\* C14: there are no automatic retries. A turn makes at most one ingestion
\* call; the step that ends a turn in failure leaves the status Idle; and once
\* a turn is over nothing of it moves again: no ingestion call, no message, no
\* recorder, stream or handler step. With no recorder fault, a turn that is
\* over has no recorder, stream or sampling loop running
DeviceRefused(k) == startPc[k] = "failed" /\ stream[k] = "none"
TurnOver(h) == DeviceRefused(h) \/ stopPc[h] = "done"
AllMsgsOf(h) == SelectSeq(messages, LAMBDA m : m.turn = h)
NoRecorderFault ==
  \A k \in Ids : (startPc[k] = "failed" => stream[k] = "none") /\ stopPc[k] # "threw"

C14_AtMostOne ==
  /\ \A h \in Ids : Len(IngestsOf(h)) <= 1
  /\ NoRecorderFault =>
       \A h \in Ids :
         TurnOver(h) =>
           /\ stream[h] # "live"
           /\ recorder[h] \notin {"recording", "stopping"}
           /\ ~loop[h]

C14_OverStep ==
  \A h \in Ids :
    /\ (~TurnOver(h) /\ TurnOver(h)') => status' = "idle"
    /\ TurnOver(h) =>
         /\ TurnOver(h)'
         /\ SelectSeq(ingestCalls', LAMBDA c : c.turn = h) = IngestsOf(h)
         /\ SelectSeq(messages', LAMBDA m : m.turn = h) = AllMsgsOf(h)
         /\ startPc'[h] = startPc[h]
         /\ stopPc'[h] = stopPc[h]
         /\ recorder'[h] = recorder[h]
         /\ stream'[h] = stream[h]

C14_NoRetries == []C14_AtMostOne /\ [][C14_OverStep]_vars

\* a turn whose single ingestion call failed
C14_Witness ==
  /\ stopPc[1] = "done"
  /\ Len(IngestsOf(1)) = 1
  /\ MsgsOf(1)[Len(MsgsOf(1))].kind = "generic_error"
  /\ status = "idle"

\* C15: every turn that ends in failure (device refused, recognizer failure,
\* audio too small, ingestion failure, the recorder's stop throwing) has
\* exactly one assistant message, and a failed ingestion call always shows the
\* same generic message
AssistantMsgsOf(h) == SelectSeq(messages, LAMBDA m : m.turn = h /\ m.role = "assistant")
TurnFailed(h) ==
  \/ startPc[h] = "failed"
  \/ stopPc[h] = "threw"
  \/ /\ stopPc[h] = "done"
     /\ \A i \in 1..Len(messages) : messages[i].turn = h => messages[i].kind # "reply"

C15_OneMessagePerFailure ==
  \A h \in Ids :
    TurnFailed(h) =>
      /\ Len(AssistantMsgsOf(h)) = 1
      /\ (IngestsOf(h) # <<>> /\ stopPc[h] = "done") =>
           AssistantMsgsOf(h)[1].kind = "generic_error"

\* C16: when the input device cannot be acquired the turn ends with the status
\* Idle and exactly one microphone-access message; the status was never
\* Recording for it, no recorder, sampling loop, audio context or recognizer
\* was started, no stop handler ever runs for it, and the request is not
\* repeated
C16_NothingStarted ==
  \A k \in Ids :
    DeviceRefused(k) =>
      /\ AllMsgsOf(k) = <<Msg("assistant", "mic_denied", k)>>
      /\ recorder[k] = "none"
      /\ ctx[k] = "none"
      /\ ~loop[k]
      /\ recState[k] = "absent"
      /\ trackStops[k] = 0
      /\ stopPc[k] = "none"
      /\ IngestsOf(k) = <<>>
      /\ mediaRecorderRef # k /\ mediaStreamRef # k /\ recognizerRef # k

C16_RefusedStep ==
  \A k \in Ids :
    /\ (startPc[k] = "acquiring" /\ DeviceRefused(k)') =>
         /\ status = "idle"
         /\ status' = "idle"
    /\ DeviceRefused(k) => DeviceRefused(k)'

C16_DeviceRefused == []C16_NothingStarted /\ [][C16_RefusedStep]_vars

\* the device was refused and the page is back to Idle with its one message
C16_Witness ==
  /\ DeviceRefused(1)
  /\ status = "idle"
  /\ Len(messages) = 1

\* C17: once Stop has been pressed for a turn, the recorder's stop, the
\* recognizer's stop (when the turn has a recognizer) and the detach of the
\* sampling loop have all been issued: none of them waits for another to
\* complete, and no result is looked at before
TrackerDetachIssued(h) == ~loop[h]
BridgeStopIssued(h) == recState[h] = "absent" \/ stopCalled[h]

C17_StopsIssuedTogether ==
  \A h \in Ids :
    stopPc[h] # "none" => TrackerDetachIssued(h) /\ BridgeStopIssued(h)

\* ===================================================== EnvelopeTracker: ticks
Detached == stopPc[1] \in {"closing", "done"}
Reported == pauseStats[1].pause_ratio

\* C18: whatever the sequence of samples, the counters satisfy
\* 0 <= silentMs <= totalMs, and the pause_ratio that the detach returns is a
\* fraction between 0 and 1
C18_RatioInUnitInterval ==
  /\ 0 <= pauseStatsRef.silentMs
  /\ pauseStatsRef.silentMs <= pauseStatsRef.totalMs
  /\ \A h \in Ids :
       LET r == pauseStats[h].pause_ratio IN
       r.den > 0 /\ 0 <= r.num /\ r.num <= r.den

\* a recording with silent and voiced frames was detached
C18_Witness ==
  /\ Detached
  /\ 0 < nSilent /\ nSilent < nTicks
  /\ 0 < Reported.num /\ Reported.num < Reported.den

\* C19 as stated: a recording of silent frames only reports pause_ratio 0 and a
\* recording of voiced frames only reports 1
C19_AsStated ==
  (Detached /\ nTicks > 0) =>
    /\ nSilent = nTicks => Reported.num = 0
    /\ nSilent = 0 => Reported.num = Reported.den

\* C19: a non-empty recording of silent frames only reports pause_ratio 1, and
\* a non-empty recording of voiced frames only reports pause_ratio 0
C19_SilentIsOne ==
  (Detached /\ nTicks > 0) =>
    /\ nSilent = nTicks => Reported.num = Reported.den
    /\ nSilent = 0 => Reported.num = 0

\* several frames, all of them silent, then the detach
C19_Witness ==
  /\ Detached
  /\ nTicks >= 2
  /\ nSilent = nTicks
  /\ Reported.num = Reported.den

\* C20: totalMs is the frame interval times the number of ticks and silentMs
\* the frame interval times the number of silent ticks; the detach returns
\* silentMs / totalMs when totalMs > 0 and 0 when totalMs = 0
C20_RatioOfTicks ==
  /\ pauseStatsRef.totalMs = TickMs * nTicks
  /\ pauseStatsRef.silentMs = TickMs * nSilent
  /\ Detached =>
       /\ pauseStats[1].duration_ms = TickMs * nTicks
       /\ IF nTicks > 0
          THEN Reported.num * nTicks = Reported.den * nSilent
          ELSE Reported.num = 0

\* one silent frame in four: a quarter
C20_Witness ==
  /\ Detached
  /\ nTicks = 4 /\ nSilent = 1
  /\ Reported.num * 4 = Reported.den

\* C21: a detach made after the earlier detaches have returned is a no-op: it
\* returns at once, closes no audio context again, leaves the counters as they
\* were and returns the statistics the first detach returned. Every detach,
\* also one made while an earlier one awaits the close, returns those same
\* statistics
EarlierReturned(c) == c > 1 /\ \A d \in Ids : d < c => stopPc[d] = "done"

C21_SecondDetachStep ==
  \A c \in Ids :
    (stopPc[c] = "none" /\ stopPc'[c] # "none" /\ EarlierReturned(c)) =>
      /\ stopPc'[c] = "done"
      /\ closeCalls' = closeCalls
      /\ ctx' = ctx
      /\ loop' = loop
      /\ pauseStatsRef'.totalMs = pauseStatsRef.totalMs
      /\ pauseStatsRef'.silentMs = pauseStatsRef.silentMs
      /\ pauseStats'[c] = pauseStats[1]

C21_SameStatistics ==
  \A c \in Ids : stopPc[c] # "none" => pauseStats[c] = pauseStats[1]

C21_DetachIdempotent == []C21_SameStatistics /\ [][C21_SecondDetachStep]_vars

\* a recording was detached twice, one call after the other, and its context
\* was closed once
C21_Witness ==
  /\ stopPc[1] = "done" /\ stopPc[2] = "done"
  /\ nTicks > 0
  /\ closeCalls[1] = 1
  /\ ctx[1] = "closed"

\* C22: a turn whose attach found no audio-analysis capability has no audio
\* context and no sampling loop, and its detach returns duration_ms 0 and
\* pause_ratio 0, also when it follows a turn in which analysis was available
AttachedWithout(k) == startPc[k] = "done" /\ ctx[k] = "none"

C22_ZeroWithoutAnalysis ==
  \A k \in Ids :
    AttachedWithout(k) =>
      /\ ~loop[k]
      /\ audioCtxRef # k
      /\ stopPc[k] # "none" =>
           pauseStats[k] = [duration_ms |-> 0, pause_ratio |-> Ratio(0, 1)]

\* ============================================== TurnCoordinator: the payload
TranscriptCalls == {c \in {ingestCalls[i] : i \in 1..Len(ingestCalls)} : c.op = "ingestTurn"}

\* the whitespace-separated words of a text: the places where a word begins
Words(s) == Cardinality({i \in 1..Len(s) : s[i] \notin WS /\ (i = 1 \/ s[i - 1] \in WS)})

\* C23: the speech rate of a payload is undefined exactly when its duration_ms
\* is 0, and otherwise it is the number of words of the transcript divided by
\* the duration in seconds: rate * duration_ms = words * 1000
C23_SpeechRate ==
  \A c \in TranscriptCalls :
    /\ c.speech_rate.defined <=> c.duration_ms # 0
    /\ c.speech_rate.defined =>
         /\ c.speech_rate.value.den > 0
         /\ c.speech_rate.value.num * c.duration_ms
              = Words(c.transcript_text) * 1000 * c.speech_rate.value.den

\* a phrase of two words recorded over at least one frame
C23_Witness ==
  \E c \in TranscriptCalls :
       /\ c.duration_ms > 0
       /\ Words(c.transcript_text) = 2
       /\ c.speech_rate.defined

\* a text with no white space at either end and single spaces between its words
Normalized(s) ==
  /\ s # <<>> => s[1] \notin WS /\ s[Len(s)] \notin WS
  /\ \A i \in 1..Len(s) : s[i] \in WS => s[i] = " " /\ i < Len(s) /\ s[i + 1] \notin WS

\* C24: every call of ingestTurn is made by a turn stopped under the on-device
\* policy, whose recognizer resolved with text; its transcript is that text
\* whitespace-normalized and not empty; it is tagged input_mode voice,
\* stt_provider_used on_device, fallback_used false; and its duration_ms and
\* pause_ratio are the ones stopPauseTracking returned for the same turn
C24_TranscriptPayload ==
  \A c \in TranscriptCalls :
    /\ stopPolicy[c.turn]
    /\ stopPc[c.turn] \in {"await_ingest_transcript", "done"}
    /\ outcome[c.turn].state = "resolved" /\ outcome[c.turn].ok
    /\ c.transcript_text # <<>>
    /\ Normalized(c.transcript_text)
    /\ c.transcript_text = normalizeSpaces(outcome[c.turn].text)
    /\ c.input_mode = "voice"
    /\ c.stt_provider_used = "on_device"
    /\ c.fallback_used = FALSE
    /\ c.duration_ms = pauseStats[c.turn].duration_ms
    /\ c.pause_ratio = pauseStats[c.turn].pause_ratio

\* a phrase heard with irregular spacing, handed over after a recording with
\* a silent frame
C24_Witness ==
  \E c \in TranscriptCalls :
    /\ Len(c.transcript_text) = 3
    /\ c.duration_ms = TickMs
    /\ c.pause_ratio = Ratio(TickMs, TickMs)

\* ============================================ RecognitionBridge: the hypothesis
\* C25: the step that settles stop() with text resolves it with finalText, a
\* space and interimText, trimmed and whitespace-normalized: provisional text
\* that follows confirmed text is part of the outcome
C25_SettleStep ==
  \A b \in Ids :
    (~Resolved(b) /\ Resolved(b)' /\ outcome'[b].ok) =>
      outcome'[b].text = normalizeSpaces(trim(finalText[b] \o <<" ">> \o interimText[b]))

C25_OutcomeText == [][C25_SettleStep]_vars

\* C26: no call of the recognizer's start() lets a fault of the engine's start
\* primitive escape to its caller, and a stop() whose stop primitive threw is
\* resolved with a failure value rather than rejected or left to throw
C26_NothingEscapes ==
  \A b \in Ids :
    /\ ~startFault[b]
    /\ (stopCalled[b] /\ stopThrew[b]) => outcome[b] = Fail("stop_failed")

\* ================================================ TurnCoordinator: the status
\* C27: whenever the status is Idle, every recognizer that a turn started has
\* had its stop() called, whichever way the turn ended
RecognizerStarted(k) == recState[k] \notin {"absent", "created"}

C27_StoppedByIdle ==
  status = "idle" => \A k \in Ids : RecognizerStarted(k) => stopCalled[k]

\* ======================================================== the stored preference
\* C28: the stored preference changes only in the step of a user toggle (the
\* page has settled and the in-memory flag flips): starting the application
\* leaves the stored value as it was
C28_ToggleStep == stored' # stored => (prefPc = "settled" /\ onDeviceOnly' # onDeviceOnly)

C28_WrittenOnToggleOnly == [][C28_ToggleStep]_vars

\* C29: the status changes only along Idle -> Recording, Recording ->
\* Transcribing, Transcribing -> Reflecting, Transcribing -> Idle and
\* Reflecting -> Idle; Recording is entered from Idle only, and Reflecting
\* never from Idle or Recording
StatusEdges ==
  { <<"idle", "recording">>, <<"recording", "transcribing">>,
    <<"transcribing", "reflecting">>, <<"transcribing", "idle">>,
    <<"reflecting", "idle">> }

C29_EdgeStep == status' # status => <<status, status'>> \in StatusEdges

C29_EntryStep ==
  /\ (status # "recording" /\ status' = "recording") => status = "idle"
  /\ (status # "reflecting" /\ status' = "reflecting") => status \notin {"idle", "recording"}

C29_StatusEdges == [][C29_EdgeStep /\ C29_EntryStep]_vars

\* C30: no step shortens or rewrites finalText: the finalText before a step is
\* a prefix of the finalText after it, except in the step of start(), which
\* empties it; a result event with no confirmed text leaves it as it was
IsPrefix(p, q) == Len(p) <= Len(q) /\ SubSeq(q, 1, Len(p)) = p
StartStep(b) == recState[b] \in {"absent", "created"} /\ recState'[b] \notin {"absent", "created"}

C30_GrowStep ==
  \A b \in Ids :
    /\ IsPrefix(finalText[b], finalText'[b]) \/ (StartStep(b) /\ finalText'[b] = <<>>)
    /\ (~StartStep(b) /\ finalText'[b] # finalText[b]) =>
         /\ nEvents' = nEvents + 1
         /\ Len(finalText'[b]) > Len(finalText[b])

C30_FinalTextGrows == [][C30_GrowStep]_vars

\* two result events, each with confirmed text
C30_Witness ==
  /\ nEvents = 2
  /\ finalText[1] # <<>>
  /\ finalText[1][1] = "a"
  /\ Words(finalText[1]) >= 2
  /\ ~Resolved(1)

\* the text a recognizer keeps of one result: whitespace-normalized by the
\* inline recognizer, trimmed by the lib recognizer
Kept(t) == IF variant = "inline" THEN normalizeSpaces(t) ELSE trim(t)

\* the kept, non-empty results of an event that are final (or interim), joined
\* by single spaces
JoinOf(ev, final) ==
  LET join[i \in 0..Len(ev)] ==
        IF i = 0 THEN <<>>
        ELSE IF ev[i].isFinal # final \/ Kept(ev[i].transcript) = <<>> THEN join[i - 1]
        ELSE IF join[i - 1] = <<>> THEN Kept(ev[i].transcript)
        ELSE join[i - 1] \o <<" ">> \o Kept(ev[i].transcript)
  IN join[Len(ev)]

\* C31: after a result event interimText is made of the interim results of
\* that event alone: some event explains both the new interimText, as the join
\* of its interim results, and the growth of finalText, as the join of its
\* final results; whatever interimText held before is gone
C31_ResultStep ==
  \A b \in Ids :
    (nEvents' = nEvents + 1 /\ recState[b] = "running") =>
      \E ev \in Events :
        /\ interimText'[b] = JoinOf(ev, FALSE)
        /\ finalText'[b] =
             IF JoinOf(ev, TRUE) = <<>> THEN finalText[b]
             ELSE IF finalText[b] = <<>> THEN JoinOf(ev, TRUE)
             ELSE finalText[b] \o <<" ">> \o JoinOf(ev, TRUE)

C32_OnDeviceOnly ==
  \A k \in Ids :
    /\ recState[k] # "absent" => startPolicy[k] /\ SR /\ startPc[k] \in {"done", "failed"}
    /\ (startPc[k] # "none" /\ ~startPolicy[k]) => recState[k] = "absent" /\ recognizerRef # k

C32_CreateStep ==
  \A k \in Ids :
    (recState[k] = "absent" /\ recState'[k] # "absent") =>
      /\ startPc[k] = "acquiring"
      /\ startPolicy[k]
      /\ recState'[k] \in {"idle", "running"}

C32_RecognizerByPolicy == []C32_OnDeviceOnly /\ [][C32_CreateStep]_vars

\* a turn started under the server policy is recording, the toggle has been
\* switched on meanwhile, and there is no recognizer
C32_Witness ==
  /\ status = "recording"
  /\ startPc[1] = "done" /\ ~startPolicy[1]
  /\ onDeviceOnly
  /\ SR
  /\ recState[1] = "absent"

\* C33: on a platform with no recognition engine no recognizer ever exists and
\* no recognizer call is made; a turn stopped under the on-device policy goes
\* from the recorder's stop event straight to its end, with the "didn't catch
\* that" message as its only message, no ingestion call, and the status Idle
C33_NoEngine ==
  ~SR =>
    \A h \in Ids :
      /\ recState[h] = "absent" /\ ~stopCalled[h] /\ ~startFault[h]
      /\ recognizerRef = 0
      /\ (stopPolicy[h] /\ stopPc[h] \notin {"none", "threw"}) =>
           /\ stopPc[h] \in {"finalizing", "closing", "done"}
           /\ IngestsOf(h) = <<>>
           /\ stopPc[h] = "done" => MsgsOf(h) = <<Msg("assistant", "didnt_catch", h)>>
           /\ stopPc[h] # "done" => MsgsOf(h) = <<>>

C33_EndStep ==
  \A h \in Ids :
    (~SR /\ stopPolicy'[h] /\ stopPc[h] # "done" /\ stopPc'[h] = "done") => status' = "idle"

C33_AbsentBridge == []C33_NoEngine /\ [][C33_EndStep]_vars

\* an on-device turn on a platform without an engine has ended
C33_Witness ==
  /\ ~SR
  /\ startPolicy[1] /\ stopPolicy[1]
  /\ stopPc[1] = "done"
  /\ status = "idle"
  /\ MsgsOf(1) = <<Msg("assistant", "didnt_catch", 1)>>

\* C34: as long as no session id is held, no turn has been started and no
\* ingestion call has been made; a session id is held only after createSession
\* succeeded, and it is never given up
C34_SessionFirst ==
  /\ sessionId # "" <=> sessionReq = "ok"
  /\ sessionId = "" =>
       /\ \A k \in Ids : startPc[k] = "none" /\ stopPc[k] = "none"
       /\ ingestCalls = <<>>
       /\ status = "idle"

C34_StartStep ==
  /\ \A k \in Ids : (startPc[k] = "none" /\ startPc'[k] # "none") => sessionId # ""
  /\ Len(ingestCalls') > Len(ingestCalls) => sessionId # ""
  /\ sessionId # "" => sessionId' = sessionId

C34_SessionPrecondition == []C34_SessionFirst /\ [][C34_StartStep]_vars

\* createSession failed: the page stays without a session, with no turn
C34_Witness ==
  /\ sessionReq = "failed"
  /\ sessionId = ""
  /\ onDeviceOnly

\* C35: a turn that has been stopped is handled under the policy it was started
\* with: a turn started on-device makes no audio upload, and a turn started on
\* the server path is not handled on the on-device branch with no recognizer
C35_PolicyOfTheTurn ==
  \A h \in Ids :
    /\ stopPc[h] # "none" => stopPolicy[h] = startPolicy[h]
    /\ startPolicy[h] =>
         \A i \in 1..Len(IngestsOf(h)) : IngestsOf(h)[i].op # "ingestTurnAudioFallback"
    /\ (startPc[h] = "done" /\ ~startPolicy[h]) =>
         \A i \in 1..Len(MsgsOf(h)) : MsgsOf(h)[i].kind # "didnt_catch"

\* the engine of the recognizer stop() h was called on had ended by itself before
\* the call: the end notification never reached the wrapper of h
EndedBefore(h) ==
  /\ stopCalled[h]
  /\ stopOn[h] # 0
  /\ recState[stopOn[h]] = "ended"
  /\ "onend" \notin signals[h]

\* C36 as stated: a stop() called after the engine ended on its own, once
\* resolved, was settled by the timeout, ok iff text had been accumulated and
\* with empty_transcript otherwise
C36_AsStated ==
  \A h \in Ids :
    (EndedBefore(h) /\ Resolved(h)) =>
      /\ settledBy[h] = {"timeout"}
      /\ outcome[h].ok <=> Accumulated(stopOn[h]) # <<>>
      /\ ~outcome[h].ok => outcome[h].reason = "empty_transcript"

\* C36, amended: a stop() called after the engine ended on its own and whose
\* stop primitive did not throw is pending with its timer armed until the
\* timeout fires, and is then settled by the timeout alone with the outcome of
\* the text accumulated before the call: ok iff that text is non-empty,
\* empty_transcript otherwise; one whose stop primitive threw has failed with
\* stop_failed; and every such stop() resolves
C36_EndedFirst ==
  \A h \in Ids :
    EndedBefore(h) =>
      IF stopThrew[h]
      THEN outcome[h] = Fail("stop_failed")
      ELSE \/ ~Resolved(h) /\ timeout[h] = "armed" /\ signals[h] = {}
           \/ /\ Resolved(h)
              /\ timeout[h] = "fired"
              /\ settledBy[h] = {"timeout"}
              /\ outcome[h] = finish(stopOn[h])
              /\ outcome[h].ok <=> Accumulated(stopOn[h]) # <<>>
              /\ ~outcome[h].ok => outcome[h].reason = "empty_transcript"

\* the hypothesis of an ended engine does not change any more
C36_FrozenStep ==
  \A b \in Ids :
    recState[b] = "ended" =>
      /\ recState'[b] = "ended"
      /\ finalText'[b] = finalText[b]
      /\ interimText'[b] = interimText[b]

C36_StopAfterEnd ==
  /\ []C36_EndedFirst
  /\ [][C36_FrozenStep]_vars
  /\ (EndedBefore(1) ~> Resolved(1))

\* the engine ended with a word recognized, stop() came after, and the timeout
\* produced the word
C36_Witness ==
  /\ EndedBefore(1)
  /\ ~stopThrew[1]
  /\ settledBy[1] = {"timeout"}
  /\ outcome[1].ok
  /\ outcome[1].text = <<"a">>

\* C37: the step that settles a stop() produces the outcome of the hypothesis as
\* it stands in that step, with every word of the confirmed and of the
\* provisional text, whenever the result events that built it were delivered;
\* and no later step, result events included, changes an outcome once produced
C37_SettleStep ==
  \A h \in Ids :
    /\ (~Resolved(h) /\ Resolved(h)' /\ ~stopThrew'[h]) =>
         LET hyp == Accumulated(stopOn[h]) IN
         /\ outcome'[h].ok <=> hyp # <<>>
         /\ outcome'[h].ok => Words(outcome'[h].text) = Words(hyp)
    /\ Resolved(h) => outcome'[h] = outcome[h]

C37_HypothesisAtSettlement == [][C37_SettleStep]_vars

\* ============================================ EnvelopeTracker: consecutive turns
\* the analysis of turn h has been detached: stopPauseTracking has cancelled the
\* frame request it found
DetachedTurn(h) ==
  stopPc[h] \in {"closing", "await_bridge", "await_ingest_transcript", "await_ingest_audio", "done"}

Loops == {k \in Ids : loop[k]}

\* C38: over consecutive turns at most one sampling loop is scheduled at any
\* time, and once the analysis of a turn has been detached no loop of that turn
\* or of an earlier one is scheduled; so the totals change by one tick interval
\* per tick of the one loop, and not at all between the detach of a turn and
\* the attach of the next
C38_OneLoop ==
  /\ Cardinality(Loops) <= 1
  /\ \A h \in Ids : DetachedTurn(h) => \A k \in 1..h : ~loop[k]

C38_TotalsStep ==
  /\ pauseStatsRef'.totalMs \in {0, pauseStatsRef.totalMs, pauseStatsRef.totalMs + TickMs}
  /\ (Loops = {} /\ Loops' = {}) => pauseStatsRef'.totalMs = pauseStatsRef.totalMs
  /\ \A h \in Ids : DetachedTurn(h) => pauseStats'[h] = pauseStats[h]

C38_SingleLoop == []C38_OneLoop /\ [][C38_TotalsStep]_vars

\* ===================================================== the chunked voice flow
CallsOfTurn(h) == SelectSeq(remoteCalls, LAMBDA c : c.turn = h)
CallOrder == <<"startTurn", "uploadAudio", "appendChunk", "finalizeTurn">>

\* C39: the remote calls of a turn are, in the order made, a beginning of
\* startTurn, uploadAudio, appendChunk, finalizeTurn; each call but the last
\* made has succeeded, and a call is pending only while the handler awaits it;
\* an upload that succeeded with a transcript empty after trimming is the last
\* call of its turn, and the turn is over; and the step that ends a turn, by any
\* exit of the handler or by the throw of the recorder's stop, leaves both
\* processing flags down and the status idle
C39_CallOrder ==
  \A h \in Ids :
    LET cs == CallsOfTurn(h) IN
    /\ Len(cs) <= Len(CallOrder)
    /\ \A i \in 1..Len(cs) :
         /\ cs[i].op = CallOrder[i]
         /\ i < Len(cs) => cs[i].state = "ok"
         /\ cs[i].state = "pending" <=> (i = Len(cs) /\ onstopPc[h] = "await_" \o cs[i].op)
    /\ Len(cs) > 0 => onstopPc[h] \notin {"none", "finalizing", "threw"}
    /\ (Len(cs) >= 2 /\ cs[2].state = "ok" /\ trim(cs[2].transcript) = <<>>) =>
         Len(cs) = 2 /\ onstopPc[h] = "done"

C39_ExitStep ==
  \A h \in Ids :
    (onstopPc[h] \notin {"done", "threw"} /\ onstopPc'[h] \in {"done", "threw"}) =>
      /\ status' = "idle"
      /\ ~isListening'
      /\ ~isReflecting'

C39_ChunkedFlow == []C39_CallOrder /\ [][C39_ExitStep]_vars

\* a turn that made all four calls, then one stopped by an empty transcript
C39_Witness ==
  /\ Len(CallsOfTurn(1)) = 4
  /\ \A i \in 1..4 : CallsOfTurn(1)[i].state = "ok"
  /\ Len(CallsOfTurn(2)) = 2
  /\ CallsOfTurn(2)[2].state = "ok"
  /\ CallsOfTurn(2)[2].transcript = <<" ">>
  /\ onstopPc[2] = "done"
  /\ status = "idle"

=============================================================================
